---- MODULE Spec2Model ----
(***************************************************************************)
(* A model of the Effect FX parser-compiler (source/effect_parser.cpp).    *)
(*                                                                         *)
(* The recursive-descent functions of the parser are operators over a      *)
(* record `p` that holds the members of reshadefx::parser (the lexer, the  *)
(* current and look-ahead token, the diagnostics, the id counter, the open *)
(* basic block, the break/continue target stacks, the symbol table, the    *)
(* function arena and the $Globals layout).  A function that takes a       *)
(* `spv_basic_block &section` takes and returns the instruction list.      *)
(* run() and the declaration loop of a namespace are the actions of the    *)
(* state machine: one parse_top_level call per step.                       *)
(***************************************************************************)
EXTENDS Integers, Sequences, FiniteSets, TLC

VARIABLES
    source,     \* the program run() was called with: its token list and, for a
                \* generated program, the syntax tree it was printed from
    pc,         \* position of run(): "start", "parse", "done"
    p,          \* the members of reshadefx::parser
    frames,     \* active parse_top_level(namespace) calls, innermost last:
                \* the local `success` of each
    success,    \* the local `success` of run()
    result,     \* run()'s return value once pc = "done"
    written     \* the modules write_module() has written, in order

vars == <<source, pc, p, frames, success, result, written>>

-----------------------------------------------------------------------------
(* Tokens.  A token is its id, literal_as_string, literal_as_int and its   *)
(* location (the index of the token in the input).                         *)

RECURSIVE this(_, _)

Tk(id) == [id |-> id, s |-> "", v |-> 0]
Ident(name) == [id |-> "identifier", s |-> name, v |-> 0]
IntLit(n) == [id |-> "int_literal", s |-> "", v |-> n]

EndOfFile == [id |-> "end_of_file", s |-> "", v |-> 0, loc |-> 0]

\* lexer::lex: the next token of the input, end_of_file at and after its end
lex(lexer) ==
    IF lexer.pos < Len(lexer.input)
    THEN [tok |-> [id |-> lexer.input[lexer.pos + 1].id,
                   s |-> lexer.input[lexer.pos + 1].s,
                   v |-> lexer.input[lexer.pos + 1].v,
                   loc |-> lexer.pos + 1],
          lexer |-> [lexer EXCEPT !.pos = @ + 1]]
    ELSE [tok |-> [EndOfFile EXCEPT !.loc = Len(lexer.input) + 1],
          lexer |-> lexer]

-----------------------------------------------------------------------------
(* Strings.  literal_as_string is a string; where the parser looks at the  *)
(* characters of one (a semantic, a subscript) the string is spelled out.  *)

DigitChars == <<"0", "1", "2", "3", "4", "5", "6", "7", "8", "9">>
UpperChars ==
    <<"A", "B", "C", "D", "E", "F", "G", "H", "I", "J", "K", "L", "M",
      "N", "O", "P", "Q", "R", "S", "T", "U", "V", "W", "X", "Y", "Z">>
LowerChars ==
    <<"a", "b", "c", "d", "e", "f", "g", "h", "i", "j", "k", "l", "m",
      "n", "o", "p", "q", "r", "s", "t", "u", "v", "w", "x", "y", "z">>

IsIn(seq, c) == \E i \in 1..Len(seq) : seq[i] = c
IndexIn(seq, c) == CHOOSE i \in 1..Len(seq) : seq[i] = c

\* The character code; "" is the terminator of the string
Ord(c) ==
    IF c = "" THEN 0
    ELSE IF IsIn(DigitChars, c) THEN 47 + IndexIn(DigitChars, c)
    ELSE IF IsIn(UpperChars, c) THEN 64 + IndexIn(UpperChars, c)
    ELSE IF c = "_" THEN 95
    ELSE 96 + IndexIn(LowerChars, c)

RECURSIVE Spell(_)
\* The string of a sequence of characters
Spell(chars) == IF chars = <<>> THEN "" ELSE chars[1] \o Spell(Tail(chars))

\* The semantics and the subscripts of the programs compiled
Semantics ==
    {<<"S", "V", "_", "P", "O", "S", "I", "T", "I", "O", "N">>,
     <<"s", "v", "_", "p", "o", "s", "i", "t", "i", "o", "n">>,
     <<"S", "V", "_", "P", "O", "I", "N", "T", "S", "I", "Z", "E">>,
     <<"S", "V", "_", "D", "E", "P", "T", "H">>,
     <<"S", "V", "_", "V", "E", "R", "T", "E", "X", "I", "D">>,
     <<"V", "E", "R", "T", "E", "X", "I", "D">>,
     <<"S", "V", "_", "T", "A", "R", "G", "E", "T">>,
     <<"S", "V", "_", "T", "A", "R", "G", "E", "T", "0">>,
     <<"S", "V", "_", "T", "A", "R", "G", "E", "T", "1">>,
     <<"S", "V", "_", "T", "a", "r", "g", "e", "t", "2">>,
     <<"T", "E", "X", "C", "O", "O", "R", "D">>,
     <<"T", "E", "X", "C", "O", "O", "R", "D", "0">>,
     <<"T", "E", "X", "C", "O", "O", "R", "D", "1">>,
     <<"t", "e", "x", "c", "o", "o", "r", "d", "1", "2">>,
     <<"C", "O", "L", "O", "R">>,
     <<"C", "O", "L", "O", "R", "0">>,
     <<"C", "O", "L", "O", "R", "1">>,
     <<"N", "O", "R", "M", "A", "L", "2">>,
     <<"c", "o", "l", "o", "r", "1", "3">>}

VectorSubscripts ==
    {<<"x">>, <<"y">>, <<"z">>, <<"x", "y">>, <<"y", "x">>, <<"x", "x">>,
     <<"x", "y", "x">>, <<"r", "g">>, <<"g", "g">>, <<"s", "t">>, <<"x", "g">>,
     <<"x", "y", "z", "w", "x">>, <<"x", "k">>, <<"r", "r", "r">>}

\* `_RC` and `_mRC` for every pair of digits, and sequences of them
MatrixSubscripts ==
    UNION {{<<"_", r, c>>, <<"_", "m", r, c>>} :
              r \in {"0", "1", "2", "3", "4"}, c \in {"0", "1", "2", "3", "4"}}
      \cup {<<"_", "1", "1", "_", "2", "2">>, <<"_", "m", "0", "0", "_", "m", "1", "1">>,
            <<"_", "m", "0", "0", "_", "1", "1">>, <<"_", "1", "1", "_", "m", "0", "0">>,
            <<"_", "1", "1", "_", "1", "1">>, <<"_", "m", "0", "1", "_", "m", "0", "1">>,
            <<"_", "1">>}

Spellings == Semantics \cup VectorSubscripts \cup MatrixSubscripts

\* The characters of a string
Characters(str) == CHOOSE chars \in Spellings : Spell(chars) = str

\* subscript[i]: the character at index i (from 0), the terminator at the
\* length; nothing behind it is read for the subscripts compiled here
CharAt(chars, i) == IF i = Len(chars) THEN "" ELSE chars[i + 1]

\* ::toupper of a character
ToUpperChar(c) == IF IsIn(LowerChars, c) THEN UpperChars[IndexIn(LowerChars, c)] ELSE c

RECURSIVE stol(_)
\* std::stol: the number written by the digits the string starts with (the
\* strings converted here start with a digit; std::stol throws otherwise)
stol(chars) ==
    IF chars = <<>> THEN 0
    ELSE IF \E k \in 1..Len(chars) : ~IsIn(DigitChars, chars[k])
    THEN stol(SubSeq(chars, 1, Len(chars) - 1))
    ELSE 10 * stol(SubSeq(chars, 1, Len(chars) - 1))
            + (IndexIn(DigitChars, chars[Len(chars)]) - 1)

\* std::transform(begin, end, begin, ::toupper)
ToUpper(chars) == [i \in 1..Len(chars) |-> ToUpperChar(chars[i])]

\* size() > Len(prefix) && compare(0, Len(prefix), prefix) == 0
StartsWith(chars, prefix) ==
    Len(chars) > Len(prefix) /\ SubSeq(chars, 1, Len(prefix)) = prefix

-----------------------------------------------------------------------------
(* Results of the parser's functions.                                      *)

R(q, ok) == [p |-> q, ok |-> ok]
RS(q, sec, ok) == [p |-> q, sec |-> sec, ok |-> ok]

-----------------------------------------------------------------------------
(* Error handling.  The diagnostics buffer is kept as the set of           *)
(* (severity, code) pairs appended to it.                                   *)

error(q, code) == [q EXCEPT !._errors = @ \cup {[sev |-> "error", code |-> code]}]
warning(q, code) == [q EXCEPT !._errors = @ \cup {[sev |-> "warning", code |-> code]}]

HasError(q) == \E d \in q._errors : d.sev = "error"
HasCode(q, code) == [sev |-> "error", code |-> code] \in q._errors

-----------------------------------------------------------------------------
(* Token management.                                                       *)

peek(q, tokid) == q._token_next.id = tokid

consume(q) ==
    LET l == this("lex", <<q._lexer>>)
    IN [q EXCEPT !._token = q._token_next, !._token_next = l.tok, !._lexer = l.lexer]

\* _history is no member of the parser: it is the record of the calls of
\* backup() and restore(), each with the look-ahead token and the lexer it
\* returns with, of the calls of parse_statement() with no block open, of
\* the binary operations and of the returns of the statement functions
Called(q, event) ==
    [q EXCEPT !._history = Append(@, [event |-> event, _token_next |-> q._token_next,
                                      _lexer |-> q._lexer])]

\* The lexer is copied: _lexer is a copy of the lexer _lexer_backup now holds
backup(q) ==
    Called([q EXCEPT !._lexer_backup = q._lexer, !._token_backup = q._token_next],
           "backup")

\* The look-ahead token is taken back, the lexer is kept
RestoreTokenOnly(q) == Called([q EXCEPT !._token_next = q._token_backup], "restore")

restore(q) ==
    Called([q EXCEPT !._lexer = q._lexer_backup, !._lexer_backup = q._lexer,
                     !._token_next = q._token_backup],
           "restore")

\* The depths of the scopes and of the targets of break and continue
Depths(q) ==
    [scope |-> q._current_scope.level,
     break |-> Len(q._loop_break_target_stack),
     continue |-> Len(q._loop_continue_target_stack)]

\* The record of the return of a function entered with the parser q (no
\* member of the parser)
Leaving(q, r, function) ==
    [r EXCEPT !.p._history = Append(@, [event |-> "return", _token_next |-> r.p._token_next,
                                         _lexer |-> r.p._lexer, function |-> function,
                                         ok |-> r.ok, entry |-> Depths(q),
                                         exit |-> Depths(r.p)])]

accept(q, tokid) ==
    IF peek(q, tokid) THEN R(this("consume", <<q>>), TRUE) ELSE R(q, FALSE)

consume_until(q, tokid) ==
    LET a == accept(q, tokid)
    IN IF ~a.ok /\ ~peek(q, "end_of_file")
       THEN this("consume_until", <<this("consume", <<q>>), tokid>>)
       ELSE a.p

expect(q, tokid) ==
    LET a == accept(q, tokid)
    IN IF ~a.ok THEN R(error(q, 3000), FALSE) ELSE a

-----------------------------------------------------------------------------
(* Types (spv_type).  qualifiers is the set of qualifier names; the        *)
(* array_length is -1 for an unsized array, 0 for no array.                *)

Type(base, rows, cols) ==
    [base |-> base, rows |-> rows, cols |-> cols, qualifiers |-> {},
     is_pointer |-> FALSE, array_length |-> 0, definition |-> 0]

has(type, qualifier) == qualifier \in type.qualifiers

is_array(type) == type.array_length # 0
is_numeric(type) == type.base \in {"bool", "int", "uint", "float"}
is_scalar(type) == ~is_array(type) /\ is_numeric(type) /\ type.rows = 1 /\ type.cols = 1
is_vector(type) == ~is_array(type) /\ type.rows > 1 /\ type.cols = 1
is_matrix(type) == ~is_array(type) /\ type.rows >= 1 /\ type.cols > 1
is_void(type) == type.base = "void"
is_boolean(type) == type.base = "bool"
is_integral(type) == type.base \in {"int", "uint"}
is_floating_point(type) == type.base = "float"
is_struct(type) == type.base = "struct"
is_texture(type) == type.base = "texture"
is_sampler(type) == type.base = "sampler"
is_function(type) == type.base = "function"
components(type) == type.rows * type.cols

\* The keyword tokens of the numeric types, in the order of the tokenid
\* enumeration the row arithmetic of accept_type_class relies on.
VectorKeywords ==
    [bool |-> <<"bool", "bool2", "bool3", "bool4">>,
     int |-> <<"int", "int2", "int3", "int4">>,
     uint |-> <<"uint", "uint2", "uint3", "uint4">>,
     float |-> <<"float", "float2", "float3", "float4">>]

MatrixKeywords ==
    [bool |-> <<"bool2x2", "bool3x3", "bool4x4">>,
     int |-> <<"int2x2", "int3x3", "int4x4">>,
     uint |-> <<"uint2x2", "uint3x3", "uint4x4">>,
     float |-> <<"float2x2", "float3x3", "float4x4">>]

NumericBases == {"bool", "int", "uint", "float"}

\* spv_type::rank: the cost of the implicit conversion from src to dst, 0 when
\* there is none
rank(src, dst) ==
    IF src.array_length # dst.array_length THEN 0
    ELSE IF ~is_numeric(src) \/ ~is_numeric(dst)
    THEN (IF src.base = dst.base /\ src.definition = dst.definition THEN 1 ELSE 0)
    ELSE IF src.rows = dst.rows /\ src.cols = dst.cols
    THEN (IF src.base = dst.base THEN 1 ELSE 2)
    ELSE IF src.rows = 1 /\ src.cols = 1
    THEN (IF src.base = dst.base THEN 3 ELSE 4)
    ELSE IF src.rows >= dst.rows /\ src.cols >= dst.cols
    THEN (IF src.base = dst.base THEN 5 ELSE 6)
    ELSE 0

-----------------------------------------------------------------------------
(* Symbol table.  An entry is a name, the scope it was declared in (its    *)
(* level and namespace path) and the symbol.                               *)

NoSymbol ==
    [op |-> "", id |-> 0, type |-> Type("void", 0, 0), function |-> 0,
     member_index |-> -1, constant |-> <<>>]

Symbol(op, id, type) == [NoSymbol EXCEPT !.op = op, !.id = id, !.type = type]

IsPrefix(a, b) == Len(a) <= Len(b) /\ SubSeq(b, 1, Len(a)) = a

current_scope(q) == q._current_scope

enter_scope(q) == [q EXCEPT !._current_scope.level = @ + 1]

\* leave_scope: the symbols of the scope that is left are dropped
leave_scope(q) ==
    [q EXCEPT !._symbols = SelectSeq(@, LAMBDA e : e.level < q._current_scope.level),
              !._current_scope.level = @ - 1]

enter_namespace(q, name) ==
    [q EXCEPT !._current_scope.name = Append(@, name),
              !._current_scope.level = @ + 1,
              !._current_scope.namespace_level = @ + 1]

leave_namespace(q) ==
    [q EXCEPT !._current_scope.name = SubSeq(@, 1, Len(@) - 1),
              !._current_scope.level = @ - 1,
              !._current_scope.namespace_level = @ - 1]

\* The entries for name that are visible from scope, outermost first
Visible(q, name, scope, exclusive) ==
    SelectSeq(q._symbols,
              LAMBDA e : /\ e.name = name
                         /\ e.level <= scope.level
                         /\ IsPrefix(e.scope, scope.name)
                         /\ (exclusive => e.level = scope.level))

find_symbol(q, name, scope, exclusive) ==
    LET found == Visible(q, name, scope, exclusive)
    IN IF found = <<>> THEN NoSymbol ELSE found[Len(found)].sym

\* insert_symbol: a function joins the overload set of its name, any other
\* symbol must be new in its scope
insert_symbol(q, name, sym, global) ==
    LET scope == IF global
                 THEN [current_scope(q) EXCEPT !.level = q._current_scope.namespace_level]
                 ELSE current_scope(q)
    IN IF sym.op # "OpFunction" /\ this("find_symbol", <<q, name, scope, TRUE>>).op # ""
       THEN R(q, FALSE)
       ELSE R([q EXCEPT !._symbols =
                   Append(@, [name |-> name, level |-> scope.level,
                              scope |-> scope.name, sym |-> sym])], TRUE)

-----------------------------------------------------------------------------
(* IR builder.  An instruction is its opcode, result id (0 for none),      *)
(* result type, id operands and source location.  `stmt` is not part of the *)
(* program: it names the break or continue statement (by the location of   *)
(* its keyword) that emitted a terminator, 0 for every other instruction.  *)

Instr(op, res, type, args, loc) ==
    [op |-> op, result |-> res, type |-> type, args |-> args, loc |-> loc, stmt |-> 0]

NoType == Type("void", 0, 0)

\* _current_function when no function is being defined (the source uses
\* the maximum size_t; the arenas are indexed from 1 here)
NoFunction == 0

Terminators ==
    {"OpBranch", "OpBranchConditional", "OpSwitch", "OpReturn", "OpReturnValue", "OpKill"}

make_id(q) == [p |-> [q EXCEPT !._next_id = @ + 1], id |-> q._next_id]

add_node(q, sec, loc, op, type, args) ==
    LET m == make_id(q)
    IN [p |-> m.p, sec |-> Append(sec, Instr(op, m.id, type, args, loc)), id |-> m.id]

add_node_without_result(sec, loc, op, args) ==
    Append(sec, Instr(op, 0, NoType, args, loc))

\* enter_block: the label opens the block
enter_block(q, sec, id) ==
    [p |-> [q EXCEPT !._current_block = id],
     sec |-> Append(sec, Instr("OpLabel", id, NoType, <<>>, 0))]

\* Leaving a block emits its one terminator and clears _current_block; there
\* is no block to leave when none is open.
LeaveBlock(q, sec, op, args) ==
    IF q._current_block = 0
    THEN [p |-> q, sec |-> sec]
    ELSE [p |-> [q EXCEPT !._current_block = 0],
          sec |-> this("add_node_without_result", <<sec, 0, op, args>>)]

leave_block_and_kill(q, sec) == LeaveBlock(q, sec, "OpKill", <<>>)

leave_block_and_return(q, sec, value) ==
    IF value = 0
    THEN LeaveBlock(q, sec, "OpReturn", <<>>)
    ELSE LeaveBlock(q, sec, "OpReturnValue", <<value>>)

leave_block_and_branch(q, sec, target) == LeaveBlock(q, sec, "OpBranch", <<target>>)

leave_block_and_branch_conditional(q, sec, condition, true_target, false_target) ==
    LeaveBlock(q, sec, "OpBranchConditional", <<condition, true_target, false_target>>)

\* convert_constant: constants are interned by type and value
convert_constant(q, type, constant) ==
    LET key == [base |-> type.base, rows |-> type.rows, cols |-> type.cols,
                array_length |-> type.array_length, constant |-> constant]
        hit == SelectSeq(q._constant_lookup, LAMBDA e : e.key = key)
        m == make_id(q)
    IN IF hit # <<>>
       THEN [p |-> q, id |-> hit[1].id]
       ELSE [p |-> [m.p EXCEPT !._constant_lookup = Append(@, [key |-> key, id |-> m.id])],
             id |-> m.id]

\* define_function: a new function of the arena becomes the current one
define_function(q, name, loc, type) ==
    LET m == make_id(q)
    IN [p |-> [m.p EXCEPT
                 !._functions2 = Append(@, [declaration |->
                                               <<Instr("OpFunction", m.id, type, <<>>, loc)>>,
                                            variables |-> <<>>,
                                            definition |-> <<>>]),
                 !._current_function = Len(q._functions2) + 1],
        id |-> m.id]

leave_function(q) == [q EXCEPT !._current_function = NoFunction]

define_parameter(q, name, loc, type) ==
    LET m == make_id(q)
    IN [p |-> [m.p EXCEPT !._functions2[q._current_function].declaration =
                   Append(@, Instr("OpFunctionParameter", m.id, type, <<>>, loc))],
        id |-> m.id]

\* define_variable: function-scope variables go to the prologue block of the
\* current function, all others to the global variables
define_variable(q, name, loc, type, storage, initializer) ==
    LET m == make_id(q)
        node == [op |-> "OpVariable", result |-> m.id, type |-> type,
                 args |-> IF initializer = 0 THEN <<>> ELSE <<initializer>>,
                 loc |-> loc, stmt |-> 0, storage |-> storage]
    IN IF storage = "Function" /\ q._current_function # NoFunction
       THEN [p |-> [m.p EXCEPT !._functions2[q._current_function].variables =
                       Append(@, node)],
             id |-> m.id]
       ELSE [p |-> [m.p EXCEPT !._variables = Append(@, node)], id |-> m.id]

add_member_decoration(q, id, member_index, decoration, value) ==
    [q EXCEPT !._member_decorations =
        Append(@, [id |-> id, member |-> member_index,
                   decoration |-> decoration, value |-> value])]

add_decoration(q, id, decoration, value) ==
    [q EXCEPT !._decorations =
        Append(@, [id |-> id, decoration |-> decoration, value |-> value])]

-----------------------------------------------------------------------------
(* Expressions (spv_expression) and the access chain engine.               *)

NoExpression ==
    [base |-> 0, is_lvalue |-> FALSE, is_constant |-> FALSE, constant |-> <<>>,
     type |-> NoType, chain |-> <<>>, location |-> 0]

\* The type of an expression is the type of the value, never of the pointer
reset_to_lvalue(base, type, loc) ==
    [NoExpression EXCEPT !.base = base, !.is_lvalue = TRUE,
                         !.type = [type EXCEPT !.is_pointer = FALSE],
                         !.location = loc]

reset_to_rvalue(base, type, loc) ==
    [NoExpression EXCEPT !.base = base,
                         !.type = [type EXCEPT !.qualifiers = @ \cup {"const"}],
                         !.location = loc]

reset_to_rvalue_constant(type, loc, data) ==
    [NoExpression EXCEPT !.is_constant = TRUE, !.constant = data,
                         !.type = [type EXCEPT !.qualifiers = @ \cup {"const"}],
                         !.location = loc]

SameShape(a, b) ==
    a.base = b.base /\ a.rows = b.rows /\ a.cols = b.cols /\ a.array_length = b.array_length

\* The lanes of a constant hold whole numbers, the 32 bits of a lane read as
\* a signed integer; a lane of a float constant holds the value in units of
\* 1/FloatOne, FloatOne is the float 1.0
FloatOne == 10

\* The conversion of one lane of a constant to another base type
ConvertLane(v, from, to) ==
    IF from = to THEN v
    ELSE IF to = "bool" THEN (IF v = 0 THEN 0 ELSE 1)
    ELSE IF to = "float" THEN v * FloatOne
    ELSE IF from = "float" THEN (IF v >= 0 THEN v \div FloatOne ELSE 0 - ((0 - v) \div FloatOne))
    ELSE v

\* add_cast_operation: a constant is converted on the spot, anything else
\* gets the cast appended to its chain
add_cast_operation(exp, type) ==
    IF SameShape(exp.type, type) THEN exp
    ELSE IF exp.is_constant
    THEN [exp EXCEPT !.type.base = type.base, !.type.rows = type.rows,
                     !.type.cols = type.cols,
                     !.constant = [i \in 1..Len(exp.constant) |->
                                      ConvertLane(exp.constant[i], exp.type.base, type.base)]]
    ELSE [exp EXCEPT !.chain = Append(@, [op |-> "cast", from |-> exp.type, to |-> type]),
                     !.type.base = type.base, !.type.rows = type.rows,
                     !.type.cols = type.cols]

add_member_access(exp, index, type) ==
    [exp EXCEPT !.chain = Append(@, [op |-> "member", from |-> exp.type, to |-> type]),
                !.type = type]

\* add_swizzle_access: the components selected, each by its offset in the
\* vector (row * 4 + column in a matrix); a constant is swizzled on the spot
add_swizzle_access(exp, offsets, length) ==
    LET to == [exp.type EXCEPT !.rows = length, !.cols = 1]
    IN IF exp.is_constant
       THEN [exp EXCEPT !.type = to,
                        !.constant = [i \in 1..length |->
                            LET lane == (offsets[i] \div 4) * exp.type.cols
                                            + (offsets[i] % 4) + 1
                            IN IF is_matrix(exp.type)
                               THEN (IF lane <= Len(exp.constant) THEN exp.constant[lane] ELSE 0)
                               ELSE IF offsets[i] + 1 <= Len(exp.constant)
                               THEN exp.constant[offsets[i] + 1] ELSE 0]]
       ELSE [exp EXCEPT !.chain = Append(@, [op |-> "swizzle", from |-> exp.type, to |-> to,
                                             swizzle |-> SubSeq(offsets, 1, length)]),
                        !.type = to]

HasStep(exp, op) == \E i \in 1..Len(exp.chain) : exp.chain[i].op = op

\* The offsets of the last swizzle of the chain
LastSwizzle(exp) ==
    LET at == {i \in 1..Len(exp.chain) : exp.chain[i].op = "swizzle"}
    IN exp.chain[CHOOSE i \in at : \A j \in at : j <= i].swizzle

\* access_chain_load: the id of the value of the expression.  A constant is
\* its interned id; an l-value is loaded through its chain; a swizzle is one
\* shuffle of the loaded vector; every pending cast is one conversion
\* instruction.
access_chain_load(q, sec, exp) ==
    IF exp.is_constant
    THEN LET c == this("convert_constant", <<q, exp.type, exp.constant>>)
         IN [p |-> c.p, sec |-> sec, id |-> c.id]
    ELSE LET a == IF exp.is_lvalue /\ HasStep(exp, "member")
                  THEN this("add_node", <<q, sec, exp.location, "OpAccessChain", exp.type, <<exp.base>>>>)
                  ELSE [p |-> q, sec |-> sec, id |-> exp.base]
             l == IF exp.is_lvalue
                  THEN this("add_node", <<a.p, a.sec, exp.location, "OpLoad", exp.type, <<a.id>>>>)
                  ELSE a
             w == IF HasStep(exp, "swizzle")
                  THEN this("add_node", <<l.p, l.sec, exp.location, "OpVectorShuffle", exp.type,
                                          <<l.id, l.id>> \o LastSwizzle(exp)>>)
                  ELSE l
             c == IF HasStep(exp, "cast")
                  THEN this("add_node", <<w.p, w.sec, exp.location, "OpConvert", exp.type, <<w.id>>>>)
                  ELSE w
         IN c

\* The vector a store through a swizzle writes: the lanes of the target, with
\* those the swizzle selects taken from the value
StoreSwizzled(q, sec, exp, target, value) ==
    LET l == this("add_node", <<q, sec, exp.location, "OpLoad", exp.type, <<target>>>>)
    IN this("add_node", <<l.p, l.sec, exp.location, "OpVectorShuffle", exp.type,
                          <<l.id, value>> \o LastSwizzle(exp)>>)

\* access_chain_store: the value is stored through the chain of the target.
\* A store through a swizzle loads the vector, writes the selected lanes by
\* one shuffle and stores the vector.
access_chain_store(q, sec, exp, value, value_type) ==
    LET a == IF HasStep(exp, "member")
             THEN this("add_node", <<q, sec, exp.location, "OpAccessChain", exp.type, <<exp.base>>>>)
             ELSE [p |-> q, sec |-> sec, id |-> exp.base]
        w == IF HasStep(exp, "swizzle")
             THEN this("StoreSwizzled", <<a.p, a.sec, exp, a.id, value>>)
             ELSE [p |-> a.p, sec |-> a.sec, id |-> value]
    IN [p |-> w.p,
        sec |-> this("add_node_without_result", <<w.sec, exp.location, "OpStore", <<a.id, w.id>>>>)]

-----------------------------------------------------------------------------
(* Type parsing.                                                           *)

RT(q, ok, type) == [p |-> q, ok |-> ok, type |-> type]

\* The numeric keyword cases of accept_type_class: the rows follow from the
\* distance of the token id to the first keyword of its group
KeywordType(type, id) ==
    IF id = "void" THEN [type EXCEPT !.base = "void"]
    ELSE IF id = "string" THEN [type EXCEPT !.base = "string"]
    ELSE IF id = "texture" THEN [type EXCEPT !.base = "texture"]
    ELSE IF id = "sampler" THEN [type EXCEPT !.base = "sampler"]
    ELSE IF \E b \in NumericBases : \E i \in 1..4 : VectorKeywords[b][i] = id
    THEN LET b == CHOOSE b \in NumericBases : \E i \in 1..4 : VectorKeywords[b][i] = id
             i == CHOOSE i \in 1..4 : VectorKeywords[b][i] = id
         IN [type EXCEPT !.base = b, !.rows = 1 + (i - 1), !.cols = 1]
    ELSE LET b == CHOOSE b \in NumericBases : \E i \in 1..3 : MatrixKeywords[b][i] = id
             i == CHOOSE i \in 1..3 : MatrixKeywords[b][i] = id
         IN [type EXCEPT !.base = b, !.rows = 2 + (i - 1), !.cols = 2 + (i - 1)]

IsTypeKeyword(id) ==
    \/ id \in {"void", "string", "texture", "sampler"}
    \/ \E b \in NumericBases : \E i \in 1..4 : VectorKeywords[b][i] = id
    \/ \E b \in NumericBases : \E i \in 1..3 : MatrixKeywords[b][i] = id

accept_type_class(q, type0) ==
    LET type == [type0 EXCEPT !.rows = 0, !.cols = 0]
    IN IF peek(q, "identifier")
       THEN LET sym == this("find_symbol", <<q, q._token_next.s, current_scope(q), FALSE>>)
                t == [type EXCEPT !.base = "struct"]
            IN IF sym.id # 0 /\ sym.op = "OpTypeStruct"
               THEN RT(this("consume", <<q>>), TRUE, [t EXCEPT !.definition = sym.id])
               ELSE RT(q, FALSE, t)
       ELSE IF peek(q, "vector")
       THEN LET q1 == this("consume", <<q>>)
                t1 == [type EXCEPT !.base = "float", !.rows = 4, !.cols = 1]
            IN IF ~peek(q1, "<") THEN RT(q1, TRUE, t1)
               ELSE LET e == this("accept_type_class", <<this("consume", <<q1>>), t1>>)
                    IN IF ~e.ok THEN RT(error(e.p, 3000), FALSE, e.type)
                       ELSE IF ~is_scalar(e.type) THEN RT(error(e.p, 3122), FALSE, e.type)
                       ELSE LET c == this("expect", <<e.p, ",">>)
                                n == IF c.ok THEN this("expect", <<c.p, "int_literal">>) ELSE c
                            IN IF ~n.ok THEN RT(n.p, FALSE, e.type)
                               ELSE IF n.p._token.v < 1 \/ n.p._token.v > 4
                               THEN RT(error(n.p, 3052), FALSE, e.type)
                               ELSE LET g == this("expect", <<n.p, ">">>)
                                    IN RT(g.p, g.ok, [e.type EXCEPT !.rows = n.p._token.v])
       ELSE IF peek(q, "matrix")
       THEN LET q1 == this("consume", <<q>>)
                t1 == [type EXCEPT !.base = "float", !.rows = 4, !.cols = 4]
            IN IF ~peek(q1, "<") THEN RT(q1, TRUE, t1)
               ELSE LET e == this("accept_type_class", <<this("consume", <<q1>>), t1>>)
                    IN IF ~e.ok THEN RT(error(e.p, 3000), FALSE, e.type)
                       ELSE IF ~is_scalar(e.type) THEN RT(error(e.p, 3123), FALSE, e.type)
                       ELSE LET c1 == this("expect", <<e.p, ",">>)
                                n1 == IF c1.ok THEN this("expect", <<c1.p, "int_literal">>) ELSE c1
                            IN IF ~n1.ok THEN RT(n1.p, FALSE, e.type)
                               ELSE IF n1.p._token.v < 1 \/ n1.p._token.v > 4
                               THEN RT(error(n1.p, 3053), FALSE, e.type)
                               ELSE LET tr == [e.type EXCEPT !.rows = n1.p._token.v]
                                        c2 == this("expect", <<n1.p, ",">>)
                                        n2 == IF c2.ok THEN this("expect", <<c2.p, "int_literal">>) ELSE c2
                                    IN IF ~n2.ok THEN RT(n2.p, FALSE, tr)
                                       ELSE IF n2.p._token.v < 1 \/ n2.p._token.v > 4
                                       THEN RT(error(n2.p, 3053), FALSE, tr)
                                       ELSE LET g == this("expect", <<n2.p, ">">>)
                                            IN RT(g.p, g.ok, [tr EXCEPT !.cols = n2.p._token.v])
       ELSE IF this("IsTypeKeyword", <<q._token_next.id>>)
       THEN RT(this("consume", <<q>>), TRUE, this("KeywordType", <<type, q._token_next.id>>))
       ELSE RT(q, FALSE, type)

\* The qualifier keywords in the order accept_type_qualifiers tries them, with
\* the qualifier bits each sets
QualifierKeywords ==
    <<"extern", "static", "uniform", "volatile", "precise", "in", "out", "inout",
      "const", "linear", "noperspective", "centroid", "nointerpolation">>

QualifierBits(id) == IF id = "inout" THEN {"in", "out"} ELSE {id}

AcceptQualifiersFrom(q, i, qualifiers) ==
    IF i > Len(QualifierKeywords) THEN [p |-> q, qualifiers |-> qualifiers]
    ELSE LET a == accept(q, QualifierKeywords[i])
         IN this("AcceptQualifiersFrom", <<a.p, i + 1,
                IF a.ok THEN qualifiers \cup QualifierBits(QualifierKeywords[i])
                ELSE qualifiers>>)

accept_type_qualifiers(q, type) ==
    LET a == this("AcceptQualifiersFrom", <<q, 1, {}>>)
    IN IF a.qualifiers = {} THEN RT(q, FALSE, type)
       ELSE LET q1 == IF a.qualifiers \subseteq type.qualifiers
                      THEN warning(a.p, 3048) ELSE a.p
                more == this("accept_type_qualifiers", <<
                            q1, [type EXCEPT !.qualifiers = @ \cup a.qualifiers]>>)
            IN RT(more.p, TRUE, more.type)

parse_type(q) ==
    LET a == this("accept_type_qualifiers", <<q, NoType>>)
        c == this("accept_type_class", <<a.p, a.type>>)
    IN IF ~c.ok THEN RT(c.p, FALSE, c.type)
       ELSE IF is_integral(c.type) /\ (has(c.type, "centroid") \/ has(c.type, "noperspective"))
       THEN RT(error(c.p, 4576), FALSE, c.type)
       ELSE IF has(c.type, "centroid") /\ ~has(c.type, "noperspective")
       THEN RT(c.p, TRUE, [c.type EXCEPT !.qualifiers = @ \cup {"linear"}])
       ELSE RT(c.p, TRUE, c.type)

-----------------------------------------------------------------------------
(* Expression parsing.  The result of a parse function for expressions is  *)
(* the parser, the section, the success flag and the expression.           *)

RE(q, sec, ok, exp) == [p |-> q, sec |-> sec, ok |-> ok, exp |-> exp]

Max(a, b) == IF a >= b THEN a ELSE b

BaseRank(base) ==
    IF base = "float" THEN 4 ELSE IF base = "uint" THEN 3
    ELSE IF base = "int" THEN 2 ELSE IF base = "bool" THEN 1 ELSE 0

\* spv_type::merge: the common type of two operands
merge(lhs, rhs) ==
    LET base == IF BaseRank(lhs.base) >= BaseRank(rhs.base) THEN lhs.base ELSE rhs.base
    IN [Type(base, Max(lhs.rows, rhs.rows), Max(lhs.cols, rhs.cols))
           EXCEPT !.array_length = Max(lhs.array_length, rhs.array_length)]

\* add_static_index_access / add_dynamic_index_access: the element of an
\* array, the row of a matrix, the component of a vector
add_index_access(exp, index) ==
    LET to == IF is_array(exp.type) THEN [exp.type EXCEPT !.array_length = 0]
              ELSE IF is_matrix(exp.type)
              THEN [exp.type EXCEPT !.rows = exp.type.cols, !.cols = 1]
              ELSE [exp.type EXCEPT !.rows = 1]
    IN [exp EXCEPT !.chain = Append(@, [op |-> "index", from |-> exp.type, to |-> to]),
                   !.type = to]

\* resolve_function_call: the candidates are the functions declared under the
\* name that take the arguments; the one of least total conversion cost is
\* chosen, none when two share the least cost
SumRank(arguments, parameter_list, i) ==
    IF i > Len(arguments) THEN 0
    ELSE this("rank", <<arguments[i].type, parameter_list[i].type>>)
             + this("SumRank", <<arguments, parameter_list, i + 1>>)

resolve_function_call(q, name, arguments, scope) ==
    LET entries == Visible(q, name, scope, FALSE)
        takes(i) ==
            /\ entries[i].sym.op = "OpFunction"
            /\ entries[i].sym.function # 0
            /\ LET f == q._functions[entries[i].sym.function]
               IN /\ Len(f.parameter_list) = Len(arguments)
                  /\ \A k \in 1..Len(arguments) :
                        this("rank", <<arguments[k].type,
                             [f.parameter_list[k].type EXCEPT !.is_pointer = FALSE]>>) > 0
        cost(i) ==
            LET f == q._functions[entries[i].sym.function]
            IN this("SumRank", <<arguments,
                       [k \in 1..Len(arguments) |->
                           [type |-> [f.parameter_list[k].type EXCEPT !.is_pointer = FALSE]]],
                       1>>)
        candidates == {i \in 1..Len(entries) : takes(i)}
        best == {i \in candidates : \A j \in candidates : cost(i) <= cost(j)}
    IN IF candidates = {}
       THEN [ok |-> FALSE, ambiguous |-> FALSE, symbol |-> NoSymbol]
       ELSE IF Cardinality(best) > 1
       THEN [ok |-> FALSE, ambiguous |-> TRUE, symbol |-> NoSymbol]
       ELSE [ok |-> TRUE, ambiguous |-> FALSE,
             symbol |-> [entries[CHOOSE i \in best : TRUE].sym EXCEPT !.op = "OpFunctionCall"]]

RECURSIVE parse_expression_multary(_, _, _)

\* The argument list of a call, up to the closing parenthesis (not consumed)
ParseArguments(q, sec, arguments) ==
    IF peek(q, ")") THEN [p |-> q, sec |-> sec, ok |-> TRUE, arguments |-> arguments]
    ELSE LET c == IF arguments # <<>> THEN this("expect", <<q, ",">>) ELSE R(q, TRUE)
         IN IF ~c.ok THEN [p |-> c.p, sec |-> sec, ok |-> FALSE, arguments |-> arguments]
            ELSE LET a == this("parse_expression_assignment", <<c.p, sec>>)
                 IN IF ~a.ok
                    THEN [p |-> a.p, sec |-> a.sec, ok |-> FALSE, arguments |-> arguments]
                    ELSE this("ParseArguments", <<a.p, a.sec, Append(arguments, a.exp)>>)

\* The first loop over the arguments of a call: the argument is cast to the
\* parameter type and a pointer parameter gets a function-scope variable
AllocateParameters(q, sec, f, arguments, parameters, i) ==
    IF i > Len(arguments)
    THEN [p |-> q, sec |-> sec, arguments |-> arguments, parameters |-> parameters]
    ELSE LET param_type == f.parameter_list[i].type
             q1 == IF components(arguments[i].type) > components(param_type)
                   THEN warning(q, 3206) ELSE q
             arg == this("add_cast_operation", <<arguments[i], [param_type EXCEPT !.is_pointer = FALSE]>>)
         IN IF param_type.is_pointer
            THEN LET v == this("define_variable", <<q1, "", arg.location, param_type, "Function", 0>>)
                 IN this("AllocateParameters", <<v.p, sec, f, [arguments EXCEPT ![i] = arg],
                        Append(parameters, this("reset_to_lvalue", <<v.id, param_type, arg.location>>)),
                        i + 1>>)
            ELSE LET l == this("access_chain_load", <<q1, sec, arg>>)
                 IN this("AllocateParameters", <<l.p, l.sec, f, [arguments EXCEPT ![i] = arg],
                        Append(parameters, this("reset_to_rvalue", <<l.id, param_type, arg.location>>)),
                        i + 1>>)

\* Copy in for every pointer parameter, whatever its qualifiers
CopyInAll(q, sec, arguments, parameters, i) ==
    IF i > Len(arguments) THEN [p |-> q, sec |-> sec]
    ELSE IF parameters[i].is_lvalue
    THEN LET l == this("access_chain_load", <<q, sec, arguments[i]>>)
             st == this("access_chain_store", <<l.p, l.sec, parameters[i], l.id, arguments[i].type>>)
         IN this("CopyIn", <<st.p, st.sec, arguments, parameters, i + 1>>)
    ELSE this("CopyIn", <<q, sec, arguments, parameters, i + 1>>)

\* Copy in: the arguments are stored to the variables of the `in` parameters
CopyIn(q, sec, arguments, parameters, i) ==
    IF i > Len(arguments) THEN [p |-> q, sec |-> sec]
    ELSE IF parameters[i].is_lvalue /\ has(parameters[i].type, "in")
    THEN LET l == this("access_chain_load", <<q, sec, arguments[i]>>)
             st == this("access_chain_store", <<l.p, l.sec, parameters[i], l.id, arguments[i].type>>)
         IN this("CopyIn", <<st.p, st.sec, arguments, parameters, i + 1>>)
    ELSE this("CopyIn", <<q, sec, arguments, parameters, i + 1>>)

\* Copy out: the variables of the `out` parameters are stored to the arguments
CopyOut(q, sec, arguments, parameters, i) ==
    IF i > Len(arguments) THEN [p |-> q, sec |-> sec]
    ELSE IF parameters[i].is_lvalue /\ has(parameters[i].type, "out")
    THEN LET l == this("access_chain_load", <<q, sec, parameters[i]>>)
             st == this("access_chain_store", <<l.p, l.sec, arguments[i], l.id, arguments[i].type>>)
         IN this("CopyOut", <<st.p, st.sec, arguments, parameters, i + 1>>)
    ELSE this("CopyOut", <<q, sec, arguments, parameters, i + 1>>)

\* parse_expression_unary, a call `identifier ( arguments )`: q is the parser
\* after the opening parenthesis
ParseCall(q, sec, location, identifier, scope, symbol) ==
    IF symbol.id # 0 /\ symbol.op # "OpFunction"
    THEN RE(error(q, 3005), sec, FALSE, NoExpression)
    ELSE LET a == this("ParseArguments", <<q, sec, <<>>>>)
             c == IF a.ok THEN this("expect", <<a.p, ")">>) ELSE R(a.p, FALSE)
         IN IF ~c.ok THEN RE(c.p, a.sec, FALSE, NoExpression)
            ELSE LET undeclared == symbol.id = 0
                     r == this("resolve_function_call", <<c.p, identifier, a.arguments, scope>>)
                 IN IF ~r.ok
                    THEN RE(error(c.p, IF undeclared THEN 3004
                                       ELSE IF r.ambiguous THEN 3067 ELSE 3013),
                            a.sec, FALSE, NoExpression)
                    ELSE LET f == c.p._functions[r.symbol.function]
                             al == this("AllocateParameters", <<c.p, a.sec, f, a.arguments, <<>>, 1>>)
                             ci == this("CopyIn", <<al.p, al.sec, al.arguments, al.parameters, 1>>)
                         IN \* It is not allowed to do recursive calls
                            IF ci.p._current_function # NoFunction
                               /\ ci.p._current_function = r.symbol.function
                            THEN RE(error(ci.p, 3500), ci.sec, FALSE, NoExpression)
                            ELSE LET n == this("add_node", <<ci.p, ci.sec, location, "OpFunctionCall",
                                              f.return_type,
                                              <<r.symbol.id>> \o
                                              [k \in 1..Len(al.parameters) |->
                                                  al.parameters[k].base]>>)
                                     co == this("CopyOut", <<n.p, n.sec, al.arguments, al.parameters, 1>>)
                                 IN RE(co.p, co.sec, TRUE,
                                       this("reset_to_rvalue", <<n.id, f.return_type, location>>))

\* parse_expression_unary, the identifier branch
ParseIdentifier(q, sec, location) ==
    LET a == accept(q, "identifier")
    IN IF ~a.ok
       THEN \* leaves the expression path without issuing an error
            RE(q, sec, FALSE, NoExpression)
       ELSE LET identifier == a.p._token.s
                scope == current_scope(a.p)
                symbol == this("find_symbol", <<a.p, identifier, scope, FALSE>>)
                call == accept(a.p, "(")
            IN IF call.ok
               THEN this("ParseCall", <<call.p, sec, location, identifier, scope, symbol>>)
               ELSE IF symbol.op = ""
               THEN RE(error(a.p, 3004), sec, FALSE, NoExpression)
               ELSE IF symbol.op = "OpVariable"
               THEN IF symbol.member_index # -1
                    THEN RE(a.p, sec, TRUE,
                            add_member_access(
                                this("reset_to_lvalue", <<symbol.id,
                                    [Type("struct", 0, 0) EXCEPT !.definition = symbol.id],
                                    location>>),
                                symbol.member_index, symbol.type))
                    ELSE RE(a.p, sec, TRUE, this("reset_to_lvalue", <<symbol.id, symbol.type, location>>))
               ELSE IF symbol.op = "OpConstant"
               THEN RE(a.p, sec, TRUE,
                       this("reset_to_rvalue_constant", <<symbol.type, location, symbol.constant>>))
               ELSE RE(error(a.p, 3005), sec, FALSE, NoExpression)

\* A primary expression is returned with `done` set where the source returns
\* from parse_expression_unary before its postfix loop.
RP(q, sec, ok, exp, done) == [p |-> q, sec |-> sec, ok |-> ok, exp |-> exp, done |-> done]

\* parse_expression_unary after `(`: a C-style cast or a parenthesized
\* expression
ParseParenthesized(q, sec, location) ==
    LET b == backup(q)
        c == this("accept_type_class", <<b, NoType>>)
        inner(q2) ==
            LET e == this("parse_expression", <<q2, sec>>)
                x == IF e.ok THEN this("expect", <<e.p, ")">>) ELSE R(e.p, FALSE)
            IN RP(x.p, e.sec, x.ok, e.exp, FALSE)
    IN IF ~c.ok THEN inner(c.p)
       ELSE IF peek(c.p, "(") THEN inner(restore(c.p))
       ELSE LET x == this("expect", <<c.p, ")">>)
            IN IF ~x.ok THEN RP(x.p, sec, FALSE, NoExpression, TRUE)
               ELSE LET u == this("parse_expression_unary", <<x.p, sec>>)
                    IN IF ~u.ok THEN RP(u.p, u.sec, FALSE, u.exp, TRUE)
                       ELSE IF /\ u.exp.type.base = c.type.base
                               /\ u.exp.type.rows = c.type.rows
                               /\ u.exp.type.cols = c.type.cols
                               /\ ~(is_array(u.exp.type) \/ is_array(c.type))
                       THEN RP(u.p, u.sec, TRUE, u.exp, TRUE)
                       ELSE IF is_numeric(u.exp.type) /\ is_numeric(c.type)
                       THEN IF components(u.exp.type) < components(c.type)
                               /\ ~is_scalar(u.exp.type)
                            THEN RP(error(u.p, 3017), u.sec, FALSE, u.exp, TRUE)
                            ELSE RP(u.p, u.sec, TRUE, this("add_cast_operation", <<u.exp, c.type>>), TRUE)
                       ELSE RP(error(u.p, 3017), u.sec, FALSE, u.exp, TRUE)

\* The elements of an initializer list, up to the closing brace (not consumed)
ParseElements(q, sec, elements) ==
    IF peek(q, "}") THEN [p |-> q, sec |-> sec, ok |-> TRUE, elements |-> elements]
    ELSE LET c == IF elements # <<>> THEN this("expect", <<q, ",">>) ELSE R(q, TRUE)
         IN IF ~c.ok
            THEN [p |-> this("consume_until", <<c.p, "}">>), sec |-> sec, ok |-> FALSE,
                  elements |-> elements]
            ELSE IF peek(c.p, "}")
            THEN [p |-> c.p, sec |-> sec, ok |-> TRUE, elements |-> elements]
            ELSE LET a == this("parse_expression_assignment", <<c.p, sec>>)
                 IN IF ~a.ok
                    THEN [p |-> this("consume_until", <<a.p, "}">>), sec |-> a.sec, ok |-> FALSE,
                          elements |-> elements]
                    ELSE this("ParseElements", <<a.p, a.sec, Append(elements, a.exp)>>)

\* The ids of the values of a list of expressions, each cast to a type first
LoadAll(q, sec, exps, types, i, ids) ==
    IF i > Len(exps) THEN [p |-> q, sec |-> sec, ids |-> ids]
    ELSE LET l == this("access_chain_load", <<q, sec, this("add_cast_operation", <<exps[i], types[i]>>)>>)
         IN this("LoadAll", <<l.p, l.sec, exps, types, i + 1, Append(ids, l.id)>>)

RECURSIVE MergeAll(_, _, _)
MergeAll(exps, i, type) ==
    IF i > Len(exps) THEN type ELSE MergeAll(exps, i + 1, this("merge", <<type, exps[i].type>>))

RECURSIVE Lanes(_, _)
Lanes(exps, i) == IF i > Len(exps) THEN <<>> ELSE exps[i].constant \o Lanes(exps, i + 1)

\* parse_expression_unary after `{`: an initializer list
ParseInitializerList(q, sec, location) ==
    LET e == this("ParseElements", <<q, sec, <<>>>>)
    IN IF ~e.ok THEN RP(e.p, e.sec, FALSE, NoExpression, TRUE)
       ELSE LET merged == MergeAll(e.elements, 1, Type("void", 1, 1))
                composite_type == [merged EXCEPT !.array_length = Len(e.elements)]
                constant == \A i \in 1..Len(e.elements) : e.elements[i].is_constant
            IN IF constant
               THEN LET x == this("expect", <<e.p, "}">>)
                    IN RP(x.p, e.sec, x.ok,
                          this("reset_to_rvalue_constant", <<composite_type, location,
                                                   Lanes(e.elements, 1)>>), TRUE)
               ELSE LET l == this("LoadAll", <<e.p, e.sec, e.elements,
                                         [i \in 1..Len(e.elements) |-> merged], 1, <<>>>>)
                        n == this("add_node", <<l.p, l.sec, location, "OpCompositeConstruct",
                                      composite_type, l.ids>>)
                        x == this("expect", <<n.p, "}">>)
                    IN RP(x.p, n.sec, x.ok,
                          this("reset_to_rvalue", <<n.id, composite_type, location>>), TRUE)

\* The arguments of a constructor, up to the closing parenthesis (not consumed)
ParseConstructorArguments(q, sec, arguments) ==
    IF peek(q, ")") THEN [p |-> q, sec |-> sec, ok |-> TRUE, arguments |-> arguments]
    ELSE LET c == IF arguments # <<>> THEN this("expect", <<q, ",">>) ELSE R(q, TRUE)
         IN IF ~c.ok THEN [p |-> c.p, sec |-> sec, ok |-> FALSE, arguments |-> arguments]
            ELSE LET a == this("parse_expression_assignment", <<c.p, sec>>)
                 IN IF ~a.ok
                    THEN [p |-> a.p, sec |-> a.sec, ok |-> FALSE, arguments |-> arguments]
                    ELSE IF ~is_numeric(a.exp.type)
                    THEN [p |-> error(a.p, 3017), sec |-> a.sec, ok |-> FALSE,
                          arguments |-> arguments]
                    ELSE this("ParseConstructorArguments", <<a.p, a.sec, Append(arguments, a.exp)>>)

RECURSIVE SumComponents(_, _)
SumComponents(exps, i) ==
    IF i > Len(exps) THEN 0 ELSE components(exps[i].type) + SumComponents(exps, i + 1)

\* parse_expression_unary after a type name: a constructor call
ParseConstructor(q, sec, location, type) ==
    LET o == this("expect", <<q, "(">>)
    IN IF ~o.ok THEN RP(o.p, sec, FALSE, NoExpression, TRUE)
       ELSE IF ~is_numeric(type) THEN RP(error(o.p, 3037), sec, FALSE, NoExpression, TRUE)
       ELSE IF peek(o.p, ")")
       THEN RP(error(this("consume", <<o.p>>), 3014), sec, FALSE, NoExpression, TRUE)
       ELSE LET a == this("ParseConstructorArguments", <<o.p, sec, <<>>>>)
                c == IF a.ok THEN this("expect", <<a.p, ")">>) ELSE R(a.p, FALSE)
                toBase == [i \in 1..Len(a.arguments) |->
                              [a.arguments[i].type EXCEPT !.base = type.base]]
            IN IF ~c.ok THEN RP(c.p, a.sec, FALSE, NoExpression, TRUE)
               ELSE IF SumComponents(a.arguments, 1) # components(type)
               THEN RP(error(c.p, 3014), a.sec, FALSE, NoExpression, TRUE)
               ELSE IF \A i \in 1..Len(a.arguments) : a.arguments[i].is_constant
               THEN RP(c.p, a.sec, TRUE,
                       this("reset_to_rvalue_constant", <<type, location, Lanes(a.arguments, 1)>>),
                       FALSE)
               ELSE IF Len(a.arguments) > 1
               THEN LET l == this("LoadAll", <<c.p, a.sec, a.arguments, toBase, 1, <<>>>>)
                        n == this("add_node", <<l.p, l.sec, location, "OpCompositeConstruct",
                                      type, l.ids>>)
                    IN RP(n.p, n.sec, TRUE, this("reset_to_rvalue", <<n.id, type, location>>), FALSE)
               ELSE RP(c.p, a.sec, TRUE, this("add_cast_operation", <<a.arguments[1], type>>), FALSE)

\* The literal tokens and the type of the constant each stands for
LiteralBase ==
    [true_literal |-> "bool", false_literal |-> "bool", int_literal |-> "int",
     uint_literal |-> "uint", float_literal |-> "float", double_literal |-> "float"]

ParseLiteral(q, location) ==
    LET id == q._token_next.id
        c == this("consume", <<q>>)
        type == [Type(LiteralBase[id], 1, 1) EXCEPT !.qualifiers = {"const"}]
        data == IF id = "true_literal" THEN <<1>>
                ELSE IF id = "false_literal" THEN <<0>> ELSE <<c._token.v>>
    IN RP(IF id = "double_literal" THEN warning(c, 5000) ELSE c, <<>>, TRUE,
          this("reset_to_rvalue_constant", <<type, location, data>>), FALSE)

is_signed(type) == type.base = "int"

\* accept_unary_op: the opcode of the prefix operator token, "" for any other
UnaryOp(id) ==
    CASE id = "!" -> "OpLogicalNot"
      [] id = "+" -> "OpNop"
      [] id = "-" -> "OpFNegate"
      [] id = "~" -> "OpNot"
      [] id = "++" -> "OpFAdd"
      [] id = "--" -> "OpFSub"
      [] OTHER -> ""

accept_unary_op(q) ==
    IF UnaryOp(q._token_next.id) = "" THEN [p |-> q, ok |-> FALSE, op |-> ""]
    ELSE [p |-> this("consume", <<q>>), ok |-> TRUE, op |-> UnaryOp(q._token_next.id)]

\* accept_postfix_op, without the consume
PostfixOp(id, type) ==
    CASE id = "++" -> IF is_integral(type) THEN "OpIAdd" ELSE "OpFAdd"
      [] id = "--" -> IF is_integral(type) THEN "OpISub" ELSE "OpFSub"
      [] OTHER -> ""

\* accept_assignment_op, without the consume
AssignmentOp(id, type) ==
    CASE id = "=" -> "OpNop"
      [] id = "%=" -> IF is_integral(type)
                      THEN (IF is_signed(type) THEN "OpSRem" ELSE "OpUMod") ELSE "OpFRem"
      [] id = "&=" -> "OpBitwiseAnd"
      [] id = "*=" -> IF is_integral(type) THEN "OpIMul" ELSE "OpFMul"
      [] id = "+=" -> IF is_integral(type) THEN "OpIAdd" ELSE "OpFAdd"
      [] id = "-=" -> IF is_integral(type) THEN "OpISub" ELSE "OpFSub"
      [] id = "/=" -> IF is_integral(type)
                      THEN (IF is_signed(type) THEN "OpSDiv" ELSE "OpUDiv") ELSE "OpFDiv"
      [] id = "<<=" -> "OpShiftLeftLogical"
      [] id = ">>=" -> IF is_signed(type) THEN "OpShiftRightArithmetic"
                       ELSE "OpShiftRightLogical"
      [] id = "^=" -> "OpBitwiseXor"
      [] id = "|=" -> "OpBitwiseOr"
      [] OTHER -> ""

\* The prefix operator on an integral operand
IntegralOp(op, type) ==
    IF ~is_integral(type) THEN op
    ELSE CASE op = "OpFNegate" -> "OpSNegate"
           [] op = "OpFAdd" -> "OpIAdd"
           [] op = "OpFSub" -> "OpISub"
           [] OTHER -> op

\* A constant one in the type of the expression
One(type) == [i \in 1..components(type) |-> IF is_floating_point(type) THEN FloatOne ELSE 1]

\* `++` and `--`, prefix and postfix: one is added to or subtracted from the
\* value and the result is stored back into the operand
StoreIncremented(q, sec, exp, value, location, op) ==
    LET c == this("convert_constant", <<q, exp.type, One(exp.type)>>)
        n == this("add_node", <<c.p, sec, location, op, exp.type, <<value, c.id>>>>)
        st == this("access_chain_store", <<n.p, n.sec, exp, n.id, exp.type>>)
    IN [p |-> st.p, sec |-> st.sec, id |-> n.id]

\* The constant folding of the prefix operators
FoldPrefix(op, constant) ==
    [i \in 1..Len(constant) |->
        CASE op = "OpLogicalNot" -> IF constant[i] = 0 THEN 1 ELSE 0
          [] op \in {"OpFNegate", "OpSNegate"} -> 0 - constant[i]
          [] op = "OpNot" -> 0 - constant[i] - 1
          [] OTHER -> constant[i]]

\* A prefix operator other than `+` on an operand of a basic type
PrefixOperation(q, sec, exp, location, op) ==
    LET l == this("access_chain_load", <<q, sec, exp>>)
    IN IF op \in {"OpFAdd", "OpFSub", "OpIAdd", "OpISub"}
       THEN IF has(exp.type, "const") \/ has(exp.type, "uniform") \/ ~exp.is_lvalue
            THEN RE(error(l.p, 3025), l.sec, FALSE, exp)
            ELSE LET s == this("StoreIncremented", <<l.p, l.sec, exp, l.id, location, op>>)
                 IN RE(s.p, s.sec, TRUE, exp)
       ELSE LET cast == IF op = "OpLogicalNot" /\ ~is_boolean(exp.type)
                        THEN this("add_cast_operation", <<exp, [exp.type EXCEPT !.base = "bool"]>>)
                        ELSE exp
            IN IF cast.is_constant
               THEN RE(l.p, l.sec, TRUE,
                       this("reset_to_rvalue_constant", <<cast.type, location,
                                                          FoldPrefix(op, cast.constant)>>))
               ELSE LET n == this("add_node", <<l.p, l.sec, location, op, cast.type, <<l.id>>>>)
                    IN RE(n.p, n.sec, TRUE, this("reset_to_rvalue", <<n.id, cast.type, location>>))

\* parse_expression_unary after a prefix operator
ParsePrefix(q, sec, location, op) ==
    LET e == this("parse_expression_unary", <<q, sec>>)
    IN IF ~e.ok THEN e
       ELSE IF ~is_scalar(e.exp.type) /\ ~is_vector(e.exp.type) /\ ~is_matrix(e.exp.type)
       THEN RE(error(e.p, 3022), e.sec, FALSE, e.exp)
       ELSE IF op = "OpNop" THEN e
       ELSE IF op = "OpNot" /\ ~is_integral(e.exp.type)
       THEN RE(error(e.p, 3082), e.sec, FALSE, e.exp)
       ELSE this("PrefixOperation", <<e.p, e.sec, e.exp, location,
                                       IntegralOp(op, e.exp.type)>>)

\* The component a character of a vector swizzle selects and the set it is of
SwizzleComponent(c) ==
    CASE c = "x" -> [offset |-> 0, set |-> "xyzw"]
      [] c = "y" -> [offset |-> 1, set |-> "xyzw"]
      [] c = "z" -> [offset |-> 2, set |-> "xyzw"]
      [] c = "w" -> [offset |-> 3, set |-> "xyzw"]
      [] c = "r" -> [offset |-> 0, set |-> "rgba"]
      [] c = "g" -> [offset |-> 1, set |-> "rgba"]
      [] c = "b" -> [offset |-> 2, set |-> "rgba"]
      [] c = "a" -> [offset |-> 3, set |-> "rgba"]
      [] c = "s" -> [offset |-> 0, set |-> "stpq"]
      [] c = "t" -> [offset |-> 1, set |-> "stpq"]
      [] c = "p" -> [offset |-> 2, set |-> "stpq"]
      [] c = "q" -> [offset |-> 3, set |-> "stpq"]
      [] OTHER -> [offset |-> -1, set |-> ""]

\* The result of the loop over a swizzle: the offsets, whether one repeats
SW(ok, offsets, constant) == [ok |-> ok, offsets |-> offsets, constant |-> constant]

RECURSIVE VectorSwizzle(_, _, _, _, _)
\* The loop over the characters of a vector swizzle, from character i
VectorSwizzle(subscript, rows, i, offsets, constant) ==
    IF i >= Len(subscript) THEN SW(TRUE, offsets, constant)
    ELSE LET c == SwizzleComponent(CharAt(subscript, i))
         IN IF c.offset = -1 THEN SW(FALSE, offsets, constant)
            ELSE IF i > 0 /\ c.set # SwizzleComponent(CharAt(subscript, i - 1)).set
            THEN SW(FALSE, offsets, constant)
            ELSE IF c.offset >= rows THEN SW(FALSE, offsets, constant)
            ELSE VectorSwizzle(subscript, rows, i + 1, Append(offsets, c.offset),
                               \* The result is not modifiable if a swizzle appears
                               \* multiple times
                               constant \/ \E k \in 1..Len(offsets) : offsets[k] = c.offset)

RECURSIVE MatrixSwizzle(_, _, _, _, _, _, _)
\* The loop with the digits of the two forms exchanged
DigitsExchanged(subscript, type, set, i, j, offsets, constant) ==
    LET coefficient == set
        R1 == CharAt(subscript, i + set + 1)
        C1 == CharAt(subscript, i + set + 2)
        row == Ord(R1) - Ord("0") - coefficient
        col == Ord(C1) - Ord("0") - coefficient
    IN IF i >= Len(subscript) THEN SW(TRUE, offsets, constant)
       ELSE IF \/ CharAt(subscript, i) # "_"
               \/ Ord(R1) < Ord("0") + coefficient
               \/ Ord(R1) > Ord("3") + coefficient
               \/ Ord(C1) < Ord("0") + coefficient
               \/ Ord(C1) > Ord("3") + coefficient
       THEN SW(FALSE, offsets, constant)
       ELSE IF set = 1 /\ CharAt(subscript, i + 1) # "m" THEN SW(FALSE, offsets, constant)
       ELSE IF (row >= type.rows \/ col >= type.cols) \/ j > 3
       THEN SW(FALSE, offsets, constant)
       ELSE MatrixSwizzle(subscript, type, set, i + 3 + set, j + 1,
                          Append(offsets, row * 4 + col),
                          constant \/ \E k \in 1..Len(offsets) : offsets[k] = row * 4 + col)

\* The loop over a matrix swizzle, from character i: element j
MatrixSwizzle(subscript, type, set, i, j, offsets, constant) ==
    LET coefficient == 1 - set
        R1 == CharAt(subscript, i + set + 1)
        C1 == CharAt(subscript, i + set + 2)
        row == Ord(R1) - Ord("0") - coefficient
        col == Ord(C1) - Ord("0") - coefficient
    IN IF i >= Len(subscript) THEN SW(TRUE, offsets, constant)
       ELSE IF \/ CharAt(subscript, i) # "_"
               \/ Ord(R1) < Ord("0") + coefficient
               \/ Ord(R1) > Ord("3") + coefficient
               \/ Ord(C1) < Ord("0") + coefficient
               \/ Ord(C1) > Ord("3") + coefficient
       THEN SW(FALSE, offsets, constant)
       ELSE IF set = 1 /\ CharAt(subscript, i + 1) # "m" THEN SW(FALSE, offsets, constant)
       ELSE IF (row >= type.rows \/ col >= type.cols) \/ j > 3
       THEN SW(FALSE, offsets, constant)
       ELSE MatrixSwizzle(subscript, type, set, i + 3 + set, j + 1,
                          Append(offsets, row * 4 + col),
                          constant \/ \E k \in 1..Len(offsets) : offsets[k] = row * 4 + col)

\* A swizzle that keeps the qualifiers of what it is taken of
QualifiersKept(exp, constant) == exp

\* A swizzle that repeats a component and a swizzle of a uniform are not
\* modifiable
SwizzleQualifiers(exp, constant) ==
    IF constant \/ has(exp.type, "uniform")
    THEN [exp EXCEPT !.type.qualifiers = (@ \cup {"const"}) \ {"uniform"}]
    ELSE exp

\* The subscript of a vector
SubscriptVector(q, sec, exp, subscript) ==
    LET w == VectorSwizzle(subscript, exp.type.rows, 0, <<>>, FALSE)
    IN IF Len(subscript) > 4 \/ ~w.ok THEN RE(error(q, 3018), sec, FALSE, exp)
       ELSE this("ParsePostfix", <<q, sec,
                    SwizzleQualifiers(add_swizzle_access(exp, w.offsets, Len(subscript)),
                                      w.constant)>>)

\* The subscript of a matrix
SubscriptMatrix(q, sec, exp, subscript) ==
    LET set == IF CharAt(subscript, 1) = "m" THEN 1 ELSE 0
        w == MatrixSwizzle(subscript, exp.type, set, 0, 0, <<>>, FALSE)
    IN IF Len(subscript) < 3 \/ ~w.ok THEN RE(error(q, 3018), sec, FALSE, exp)
       ELSE this("ParsePostfix", <<q, sec,
                    SwizzleQualifiers(
                        add_swizzle_access(exp, w.offsets, Len(subscript) \div (3 + set)),
                        w.constant)>>)

\* The subscript of a struct: the member of the name
SubscriptStruct(q, sec, exp, subscript) ==
    LET defs == {k \in 1..Len(q._structs) : q._structs[k].definition = exp.type.definition}
        member_list == IF defs = {} THEN <<>>
                       ELSE q._structs[CHOOSE k \in defs : TRUE].member_list
        found == {i \in 1..Len(member_list) : member_list[i].name = subscript}
        member_index == IF found = {} THEN Len(member_list)
                        ELSE (CHOOSE i \in found : \A k \in found : i <= k) - 1
    IN IF member_index >= Len(member_list) THEN RE(error(q, 3018), sec, FALSE, exp)
       ELSE LET m == add_member_access(exp, member_index, member_list[member_index + 1].type)
            IN this("ParsePostfix", <<q, sec,
                   IF has(m.type, "uniform")
                   THEN [m EXCEPT !.type.qualifiers = (@ \cup {"const"}) \ {"uniform"}]
                   ELSE m>>)

\* The subscript of a scalar: the scalar is promoted to a vector
SubscriptScalar(q, sec, exp, subscript) ==
    IF Len(subscript) > 4 THEN RE(error(q, 3018), sec, FALSE, exp)
    ELSE IF \E i \in 0..(Len(subscript) - 1) :
                CharAt(subscript, i) \notin {"x", "r", "s"} \/ i > 3
    THEN RE(error(q, 3018), sec, FALSE, exp)
    ELSE this("ParsePostfix", <<q, sec,
                this("add_cast_operation", <<exp, [exp.type EXCEPT !.rows = Len(subscript)]>>)>>)

\* The postfix loop of parse_expression_unary, a subscript `. identifier` (q
\* is the parser after the dot)
ParseSubscript(q, sec, exp) ==
    LET n == this("expect", <<q, "identifier">>)
        call == accept(n.p, "(")
    IN IF ~n.ok THEN RE(n.p, sec, FALSE, exp)
       ELSE IF call.ok
       THEN RE(error(call.p, IF ~is_struct(exp.type) \/ is_array(exp.type) THEN 3087 ELSE 3088),
               sec, FALSE, exp)
       ELSE IF is_array(exp.type) THEN RE(error(n.p, 3018), sec, FALSE, exp)
       ELSE IF is_vector(exp.type)
       THEN this("SubscriptVector", <<n.p, sec, exp, Characters(n.p._token.s)>>)
       ELSE IF is_matrix(exp.type)
       THEN this("SubscriptMatrix", <<n.p, sec, exp, Characters(n.p._token.s)>>)
       ELSE IF is_struct(exp.type)
       THEN this("SubscriptStruct", <<n.p, sec, exp, n.p._token.s>>)
       ELSE IF is_scalar(exp.type)
       THEN this("SubscriptScalar", <<n.p, sec, exp, Characters(n.p._token.s)>>)
       ELSE RE(error(n.p, 3018), sec, FALSE, exp)

\* The postfix loop of parse_expression_unary, a postfix `++` or `--` (q is
\* the parser after it)
ParseIncrement(q, sec, exp, location, op) ==
    IF ~is_scalar(exp.type) /\ ~is_vector(exp.type) /\ ~is_matrix(exp.type)
    THEN RE(error(q, 3022), sec, FALSE, exp)
    ELSE IF has(exp.type, "const") \/ has(exp.type, "uniform") \/ ~exp.is_lvalue
    THEN RE(error(q, 3025), sec, FALSE, exp)
    ELSE LET l == this("access_chain_load", <<q, sec, exp>>)
             s == this("StoreIncremented", <<l.p, l.sec, exp, l.id, location, op>>)
         IN this("ParsePostfix", <<s.p, s.sec,
                     this("reset_to_rvalue", <<s.id, exp.type, location>>)>>)

\* The postfix loop of parse_expression_unary, a subscript `[ index ]` (q is
\* the parser after the bracket)
ParseIndex(q, sec, exp) ==
    IF ~is_array(exp.type) /\ ~is_vector(exp.type) /\ ~is_matrix(exp.type)
    THEN RE(error(q, 3121), sec, FALSE, exp)
    ELSE LET i == this("parse_expression", <<q, sec>>)
             c == IF i.ok THEN this("expect", <<i.p, "]">>) ELSE R(i.p, FALSE)
         IN IF ~c.ok THEN RE(c.p, i.sec, FALSE, exp)
            ELSE IF ~is_scalar(i.exp.type) \/ ~is_integral(i.exp.type)
            THEN RE(error(c.p, 3120), i.sec, FALSE, exp)
            ELSE IF i.exp.is_constant
            THEN this("ParsePostfix", <<c.p, i.sec, this("add_index_access", <<exp, i.exp.constant[1]>>)>>)
            ELSE LET l == this("access_chain_load", <<c.p, i.sec, i.exp>>)
                 IN this("ParsePostfix", <<l.p, l.sec, this("add_index_access", <<exp, l.id>>)>>)

\* The postfix loop of parse_expression_unary
ParsePostfix(q, sec, exp) ==
    IF peek(q, "end_of_file") THEN RE(q, sec, TRUE, exp)
    ELSE IF PostfixOp(q._token_next.id, exp.type) # ""
    THEN this("ParseIncrement", <<this("consume", <<q>>), sec, exp, q._token_next.loc,
                                   PostfixOp(q._token_next.id, exp.type)>>)
    ELSE IF peek(q, ".")
    THEN this("ParseSubscript", <<this("consume", <<q>>), sec, exp>>)
    ELSE IF peek(q, "[") THEN this("ParseIndex", <<this("consume", <<q>>), sec, exp>>)
    ELSE RE(q, sec, TRUE, exp)

parse_expression_unary(q, sec) ==
    LET location == q._token_next.loc
        prefix == accept_unary_op(q)
        primary ==
            IF prefix.ok
            THEN LET e == this("ParsePrefix", <<prefix.p, sec, location, prefix.op>>)
                 IN RP(e.p, e.sec, e.ok, e.exp, FALSE)
            ELSE IF peek(q, "(") THEN this("ParseParenthesized", <<this("consume", <<q>>), sec, location>>)
            ELSE IF peek(q, "{") THEN this("ParseInitializerList", <<this("consume", <<q>>), sec, location>>)
            ELSE IF q._token_next.id \in DOMAIN LiteralBase
            THEN [this("ParseLiteral", <<q, location>>) EXCEPT !.sec = sec]
            ELSE LET t == this("accept_type_class", <<q, NoType>>)
                 IN IF t.ok THEN this("ParseConstructor", <<t.p, sec, location, t.type>>)
                    ELSE LET i == this("ParseIdentifier", <<t.p, sec, location>>)
                         IN RP(i.p, i.sec, i.ok, i.exp, FALSE)
    IN IF ~primary.ok \/ primary.done
       THEN RE(primary.p, primary.sec, primary.ok, primary.exp)
       ELSE this("ParsePostfix", <<primary.p, primary.sec, primary.exp>>)

\* peek_multary_op: the opcode and the precedence of the operator token
peek_multary_op(q) ==
    LET id == q._token_next.id
        M(op, precedence) == [ok |-> TRUE, op |-> op, precedence |-> precedence]
    IN CASE id = "%" -> M("OpFRem", 11)
         [] id = "&" -> M("OpBitwiseAnd", 6)
         [] id = "*" -> M("OpFMul", 11)
         [] id = "+" -> M("OpFAdd", 10)
         [] id = "-" -> M("OpFSub", 10)
         [] id = "/" -> M("OpFDiv", 11)
         [] id = "<" -> M("OpFOrdLessThan", 8)
         [] id = ">" -> M("OpFOrdGreaterThan", 8)
         [] id = "?" -> M("OpSelect", 1)
         [] id = "^" -> M("OpBitwiseXor", 5)
         [] id = "|" -> M("OpBitwiseOr", 4)
         [] id = "!=" -> M("OpLogicalNotEqual", 7)
         [] id = "&&" -> M("OpLogicalAnd", 3)
         [] id = "<<" -> M("OpShiftLeftLogical", 9)
         [] id = "<=" -> M("OpFOrdLessThanEqual", 8)
         [] id = "==" -> M("OpLogicalEqual", 7)
         [] id = ">>" -> M("OpShiftRightLogical", 9)
         [] id = ">=" -> M("OpFOrdGreaterThanEqual", 8)
         [] id = "||" -> M("OpLogicalOr", 2)
         [] OTHER -> [ok |-> FALSE, op |-> "", precedence |-> 0]

\* The operator matching the argument types of an equality
EqualityOp(op, type) ==
    IF is_integral(type) THEN (IF op = "OpLogicalEqual" THEN "OpIEqual" ELSE "OpINotEqual")
    ELSE IF is_floating_point(type)
    THEN (IF op = "OpLogicalEqual" THEN "OpFOrdEqual" ELSE "OpFOrdNotEqual")
    ELSE op

\* The operator matching the argument types of an arithmetic operation
ArithmeticOp(op, type) ==
    LET S(signed, unsigned) == IF is_signed(type) THEN signed ELSE unsigned
    IN IF ~is_integral(type) THEN op
       ELSE CASE op = "OpFRem" -> S("OpSRem", "OpUMod")
              [] op = "OpFMul" -> "OpIMul"
              [] op = "OpFAdd" -> "OpIAdd"
              [] op = "OpFSub" -> "OpISub"
              [] op = "OpFDiv" -> S("OpSDiv", "OpUDiv")
              [] op = "OpFOrdLessThan" -> S("OpSLessThan", "OpULessThan")
              [] op = "OpFOrdGreaterThan" -> S("OpSGreaterThan", "OpUGreaterThan")
              [] op = "OpFOrdLessThanEqual" -> S("OpSLessThanEqual", "OpULessThanEqual")
              [] op = "OpFOrdGreaterThanEqual" -> S("OpSGreaterThanEqual", "OpUGreaterThanEqual")
              [] op = "OpShiftRightLogical" -> S("OpShiftRightArithmetic", "OpShiftRightLogical")
              [] OTHER -> op

\* A comparison that is said to return a boolean value
BooleanResult(op) ==
    op \in {"OpLogicalEqual", "OpLogicalNotEqual", "OpFOrdLessThan", "OpFOrdGreaterThan",
            "OpFOrdLessThanEqual", "OpFOrdGreaterThanEqual"}

\* The tests of a binary operation on the types of its operands: the error
\* code, 0 when there is none
BinaryError(op, lhs, rhs) ==
    IF op \in {"OpLogicalEqual", "OpLogicalNotEqual"}
    THEN (IF is_array(lhs.type) \/ is_array(rhs.type)
             \/ lhs.type.definition # rhs.type.definition THEN 3020 ELSE 0)
    ELSE IF op \in {"OpBitwiseAnd", "OpBitwiseOr", "OpBitwiseXor"}
    THEN (IF ~is_integral(lhs.type) \/ ~is_integral(rhs.type) THEN 3082 ELSE 0)
    ELSE IF \E e \in {lhs, rhs} : ~is_scalar(e.type) /\ ~is_vector(e.type) /\ ~is_matrix(e.type)
    THEN 3022
    ELSE 0

\* The operator and the type a binary operation is computed in
BinaryOperator(op, type) ==
    IF op \in {"OpLogicalEqual", "OpLogicalNotEqual"} THEN EqualityOp(op, type)
    ELSE IF op \in {"OpBitwiseAnd", "OpBitwiseOr", "OpBitwiseXor"} THEN op
    ELSE ArithmeticOp(op, IF op \in {"OpLogicalAnd", "OpLogicalOr"}
                        THEN [type EXCEPT !.base = "bool"] ELSE type)

BinaryType(op, type) ==
    IF op \in {"OpLogicalAnd", "OpLogicalOr"} THEN [type EXCEPT !.base = "bool"] ELSE type

\* The quotient and the remainder of the integer division of C++, truncated
\* towards zero, for a divisor other than 0
Magnitude(v) == IF v < 0 THEN 0 - v ELSE v
Quotient(a, b) ==
    IF (a < 0) = (b < 0) THEN Magnitude(a) \div Magnitude(b)
    ELSE 0 - (Magnitude(a) \div Magnitude(b))
Remainder(a, b) == a - (b * Quotient(a, b))

\* The lanes of a float are in units of 1/FloatOne; the quotient by 0.0 is
\* an infinity or no number
FloatInfinity == 1000000000
FloatNaN == -1000000000
FloatQuotient(a, b) ==
    IF b = 0 THEN (IF a = 0 THEN FloatNaN ELSE IF a > 0 THEN FloatInfinity ELSE 0 - FloatInfinity)
    ELSE Quotient(a * FloatOne, b)
FloatRemainder(a, b) == IF b = 0 THEN FloatNaN ELSE Remainder(a, b)

RECURSIVE BitAnd(_, _)
\* The bits two lanes have in common
BitAnd(a, b) ==
    IF a = 0 \/ b = 0 THEN 0
    ELSE IF a = -1 THEN b
    ELSE IF b = -1 THEN a
    ELSE ((a % 2) * (b % 2)) + (2 * BitAnd(a \div 2, b \div 2))

RECURSIVE ShiftLeft(_, _)
ShiftLeft(a, n) == IF n = 0 THEN a ELSE ShiftLeft(2 * a, n - 1)

RECURSIVE ShiftRight(_, _)
ShiftRight(a, n) == IF n = 0 THEN a ELSE ShiftRight(a \div 2, n - 1)

Truth(b) == IF b THEN 1 ELSE 0

\* The lane i of a constant converted to a type of more lanes: a scalar is
\* repeated
Lane(constant, i) ==
    IF Len(constant) = 1 THEN constant[1]
    ELSE IF i <= Len(constant) THEN constant[i]
    ELSE 0

\* An operation on a lane the language leaves undefined: the division of an
\* integer by zero, the shift by less than 0 or by the width of the lane; the
\* shifts take the bits of the lanes, which are a number of 32 and more for
\* every float but 0.0
UndefinedLane(op, a, b, base) ==
    \/ op \in {"OpSRem", "OpUMod", "OpSDiv", "OpUDiv"} /\ b = 0
    \/ op \in {"OpShiftLeftLogical", "OpShiftRightArithmetic", "OpShiftRightLogical"}
            /\ IF base = "float" THEN b # 0 ELSE b < 0 \/ b >= 32

\* No operation on a lane is undefined
AllDefined(op, a, b, base) == FALSE

\* One lane of the constant of a binary operation on two constants; the
\* float equalities fall through to the comparison of the bits, and the 1 of
\* a comparison in a float lane is a number above 0.0
FoldLane(op, a, b, base, outcome) ==
    IF UndefinedLane(op, a, b, base) THEN outcome
    ELSE CASE op = "OpFRem" -> FloatRemainder(a, b)
           [] op \in {"OpSRem", "OpUMod"} -> Remainder(a, b)
           [] op = "OpFMul" -> Quotient(a * b, FloatOne)
           [] op = "OpIMul" -> a * b
           [] op \in {"OpFAdd", "OpIAdd"} -> a + b
           [] op \in {"OpFSub", "OpISub"} -> a - b
           [] op = "OpFDiv" -> FloatQuotient(a, b)
           [] op \in {"OpSDiv", "OpUDiv"} -> Quotient(a, b)
           [] op \in {"OpLogicalAnd", "OpBitwiseAnd"} -> BitAnd(a, b)
           [] op \in {"OpLogicalOr", "OpBitwiseOr"} -> (a + b) - BitAnd(a, b)
           [] op = "OpBitwiseXor" -> (a + b) - (2 * BitAnd(a, b))
           [] op \in {"OpFOrdLessThan", "OpSLessThan", "OpULessThan"} -> Truth(a < b)
           [] op \in {"OpFOrdLessThanEqual", "OpSLessThanEqual", "OpULessThanEqual"} ->
                Truth(a <= b)
           [] op \in {"OpFOrdGreaterThan", "OpSGreaterThan", "OpUGreaterThan"} -> Truth(a > b)
           [] op \in {"OpFOrdGreaterThanEqual", "OpSGreaterThanEqual", "OpUGreaterThanEqual"} ->
                Truth(a >= b)
           [] op \in {"OpFOrdEqual", "OpIEqual", "OpLogicalEqual"} -> Truth(a = b)
           [] op \in {"OpFOrdNotEqual", "OpINotEqual", "OpLogicalNotEqual"} -> Truth(a # b)
           [] op = "OpShiftLeftLogical" -> ShiftLeft(a, b)
           [] op \in {"OpShiftRightArithmetic", "OpShiftRightLogical"} -> ShiftRight(a, b)
           [] OTHER -> a

\* The record of a binary operation (no member of the parser): the operator,
\* the merged type of the operands, the type of the result and, of an
\* operation on constants, the lanes of the right operand
Computed(q, op, folded, merged, type, right) ==
    [q EXCEPT !._history = Append(@, [event |-> "binary", _token_next |-> q._token_next,
                                      _lexer |-> q._lexer, op |-> op, folded |-> folded,
                                      merged |-> merged, type |-> type, right |-> right])]

\* The type of the result of a comparison of constants: the merged type
FoldedType(op, type) == type

\* The type of the result of a comparison that is emitted
EmittedType(boolean_result, type) ==
    IF boolean_result THEN Type("bool", type.rows, type.cols) ELSE type

\* Every comparison has the boolean type
BooleanType(op, type) == IF BooleanResult(op) THEN Type("bool", type.rows, type.cols) ELSE type

\* Both operands are constants: the operation is computed lane by lane
FoldBinary(q, sec, lhs, rhs, op, type) ==
    LET l == this("add_cast_operation", <<lhs, type>>)
        r == this("add_cast_operation", <<rhs, type>>)
        lanes == 1..components(type)
        undefined == \E i \in lanes :
                        UndefinedLane(op, Lane(l.constant, i), Lane(r.constant, i), type.base)
        data == [i \in lanes |->
                    FoldLane(op, Lane(l.constant, i), Lane(r.constant, i), type.base,
                             q._outcome.value)]
        exp == this("reset_to_rvalue_constant", <<FoldedType(op, type), lhs.location, data>>)
    IN RE(Computed([q EXCEPT !._fault = @ \/ undefined], op, TRUE, type, exp.type,
                   [i \in lanes |-> Lane(r.constant, i)]),
          sec, TRUE, exp)

\* A value evaluated in a block of its own, which branches to the merge block
ValueBlock(q, sec, label, block, exp, type, merge_label) ==
    LET e == this("enter_block", <<q, sec, label>>)
        r == this("access_chain_load", <<e.p, e.sec \o block,
                                         this("add_cast_operation", <<exp, type>>)>>)
        j == this("leave_block_and_branch", <<r.p, r.sec, merge_label>>)
    IN [p |-> j.p, sec |-> j.sec, id |-> r.id]

\* The merge block, which picks the value of the block control came from
MergeBlock(q, sec, location, type, merge_label, operands) ==
    LET m == this("enter_block", <<q, sec, merge_label>>)
        n == this("add_node", <<m.p, m.sec, location, "OpPhi", type, operands>>)
    IN RE(n.p, n.sec, TRUE, this("reset_to_rvalue", <<n.id, type, location>>))

\* `&&` and `||` in the short circuit build: the right operand is evaluated
\* in a block of its own
EmitShortCircuit(q, sec, lhs, rhs, rhs_block, op, type, lhs_value) ==
    LET merge_label == make_id(q)
        parent0_label == q._current_block
        parent1_label == make_id(merge_label.p)
        cond == IF op = "OpLogicalAnd" THEN [p |-> parent1_label.p, sec |-> sec, id |-> lhs_value]
                ELSE this("add_node", <<parent1_label.p, sec, lhs.location, "OpLogicalNot", type,
                                        <<lhs_value>>>>)
        b == this("leave_block_and_branch_conditional",
                  <<cond.p, cond.sec, cond.id, parent1_label.id, merge_label.id>>)
        r == this("ValueBlock", <<b.p, b.sec, parent1_label.id, rhs_block, rhs, type,
                                  merge_label.id>>)
        n == this("MergeBlock", <<r.p, r.sec, lhs.location, type, merge_label.id,
                                  <<lhs_value, parent0_label, r.id, parent1_label.id>>>>)
    IN RE(Computed(n.p, op, FALSE, type, type, <<>>), n.sec, TRUE, n.exp)

\* An operand is no constant: the operands are loaded and the operation is
\* emitted
EmitBinary(q, sec, lhs, rhs, rhs_block, op, type, boolean_result) ==
    LET l == this("access_chain_load", <<q, sec, this("add_cast_operation", <<lhs, type>>)>>)
    IN IF l.p._short_circuit /\ op \in {"OpLogicalAnd", "OpLogicalOr"}
       THEN this("EmitShortCircuit", <<l.p, l.sec, lhs, rhs, rhs_block, op, type, l.id>>)
       ELSE LET r == this("access_chain_load", <<l.p, l.sec \o rhs_block,
                                                 this("add_cast_operation", <<rhs, type>>)>>)
                result_type == EmittedType(boolean_result, type)
                n == this("add_node", <<r.p, r.sec, lhs.location, op, result_type,
                                        <<l.id, r.id>>>>)
            IN RE(Computed(n.p, op, FALSE, type, result_type, <<>>), n.sec, TRUE,
                  this("reset_to_rvalue", <<n.id, result_type, lhs.location>>))

\* parse_expression_multary behind a binary operator
ParseBinary(q, sec, lhs, op0, right_precedence) ==
    LET r == this("parse_expression_multary", <<q, <<>>, right_precedence>>)
        rhs == r.exp
        merged == this("merge", <<lhs.type, rhs.type>>)
        code == BinaryError(op0, lhs, rhs)
        op == BinaryOperator(op0, merged)
        type == BinaryType(op0, merged)
        w1 == IF components(lhs.type) > components(type) THEN warning(r.p, 3206) ELSE r.p
        w2 == IF components(rhs.type) > components(type) THEN warning(w1, 3206) ELSE w1
    IN IF ~r.ok THEN RE(r.p, sec, FALSE, lhs)
       ELSE IF code # 0 THEN RE(error(r.p, code), sec, FALSE, lhs)
       ELSE IF lhs.is_constant /\ rhs.is_constant
       THEN this("FoldBinary", <<w2, sec, lhs, rhs, op, type>>)
       ELSE this("EmitBinary", <<w2, sec, lhs, rhs, r.sec, op, type, BooleanResult(op0)>>)

\* The test of the dimensions of a conditional expression
ConditionMismatch(condition, value) ==
    is_vector(condition) /\ condition.rows # value.rows /\ condition.cols # value.cols

\* A vector condition and a value of another number of rows do not match
RowsMismatch(condition, value) == is_vector(condition) /\ condition.rows # value.rows

\* The conditional expression in the short circuit build
EmitConditionalBlocks(q, sec, lhs, true_exp, true_block, false_exp, false_block, type) ==
    LET true_label == make_id(q)
        false_label == make_id(true_label.p)
        merge_label == make_id(false_label.p)
        c == this("access_chain_load",
                  <<merge_label.p, sec,
                    this("add_cast_operation", <<lhs, Type("bool", lhs.type.rows, 1)>>)>>)
        b == this("leave_block_and_branch_conditional",
                  <<c.p, this("add_node_without_result",
                              <<c.sec, lhs.location, "OpSelectionMerge", <<merge_label.id, 0>>>>),
                    c.id, true_label.id, false_label.id>>)
        t == this("ValueBlock", <<b.p, b.sec, true_label.id, true_block, true_exp, type,
                                  merge_label.id>>)
        f == this("ValueBlock", <<t.p, t.sec, false_label.id, false_block, false_exp, type,
                                  merge_label.id>>)
    IN this("MergeBlock", <<f.p, f.sec, lhs.location, type, merge_label.id,
                            <<t.id, true_label.id, f.id, false_label.id>>>>)

\* The conditional expression in the other build: both values are computed
EmitConditionalSelect(q, sec, lhs, true_exp, true_block, false_exp, false_block, type) ==
    LET c == this("access_chain_load",
                  <<q, (sec \o true_block) \o false_block,
                    this("add_cast_operation", <<lhs, Type("bool", type.rows, 1)>>)>>)
        t == this("access_chain_load", <<c.p, c.sec, this("add_cast_operation", <<true_exp, type>>)>>)
        f == this("access_chain_load", <<t.p, t.sec, this("add_cast_operation", <<false_exp, type>>)>>)
        n == this("add_node", <<f.p, f.sec, lhs.location, "OpSelect", type, <<c.id, t.id, f.id>>>>)
    IN RE(n.p, n.sec, TRUE, this("reset_to_rvalue", <<n.id, type, lhs.location>>))

\* parse_expression_multary behind `?`
ParseConditional(q, sec, lhs) ==
    IF ~is_scalar(lhs.type) /\ ~is_vector(lhs.type) THEN RE(error(q, 3022), sec, FALSE, lhs)
    ELSE LET t == this("parse_expression", <<q, <<>>>>)
             c == IF t.ok THEN this("expect", <<t.p, ":">>) ELSE R(t.p, FALSE)
             f == IF c.ok THEN this("parse_expression_assignment", <<c.p, <<>>>>)
                  ELSE RE(c.p, <<>>, FALSE, NoExpression)
             type == this("merge", <<t.exp.type, f.exp.type>>)
             w1 == IF components(t.exp.type) > components(type) THEN warning(f.p, 3206) ELSE f.p
             w2 == IF components(f.exp.type) > components(type) THEN warning(w1, 3206) ELSE w1
         IN IF ~f.ok THEN RE(f.p, sec, FALSE, lhs)
            ELSE IF ConditionMismatch(lhs.type, t.exp.type)
            THEN RE(error(f.p, 3020), sec, FALSE, lhs)
            ELSE IF t.exp.type.array_length # f.exp.type.array_length
                    \/ t.exp.type.definition # f.exp.type.definition
            THEN RE(error(f.p, 3020), sec, FALSE, lhs)
            ELSE IF w2._short_circuit
            THEN this("EmitConditionalBlocks",
                      <<w2, sec, lhs, t.exp, t.sec, f.exp, f.sec, type>>)
            ELSE this("EmitConditionalSelect",
                      <<w2, sec, lhs, t.exp, t.sec, f.exp, f.sec, type>>)

\* The loop of parse_expression_multary over the operators behind the left
\* operand
ParseOperators(q, sec, lhs, left_precedence) ==
    LET m == peek_multary_op(q)
    IN IF ~m.ok \/ m.precedence <= left_precedence THEN RE(q, sec, TRUE, lhs)
       ELSE LET c == this("consume", <<q>>)
                r == IF m.op # "OpSelect"
                     THEN this("ParseBinary", <<c, sec, lhs, m.op, m.precedence>>)
                     ELSE this("ParseConditional", <<c, sec, lhs>>)
            IN IF ~r.ok THEN r
               ELSE this("ParseOperators", <<r.p, r.sec, r.exp, left_precedence>>)

parse_expression_multary(q, sec, left_precedence) ==
    LET lhs == this("parse_expression_unary", <<q, sec>>)
    IN IF ~lhs.ok THEN lhs
       ELSE this("ParseOperators", <<lhs.p, lhs.sec, lhs.exp, left_precedence>>)

\* parse_expression_assignment behind the operands: the value is converted,
\* combined with the target by a compound operator and stored
StoreAssigned(q, sec, lhs, rhs, op) ==
    LET r == this("access_chain_load", <<q, sec, this("add_cast_operation", <<rhs, lhs.type>>)>>)
        v == IF op = "OpNop" THEN r
             ELSE LET l == this("access_chain_load", <<r.p, r.sec, lhs>>)
                  IN this("add_node", <<l.p, l.sec, lhs.location, op, lhs.type, <<l.id, r.id>>>>)
        st == this("access_chain_store", <<v.p, v.sec, lhs, v.id, lhs.type>>)
    IN RE(st.p, st.sec, TRUE, this("reset_to_rvalue", <<v.id, lhs.type, lhs.location>>))

parse_expression_assignment(q, sec) ==
    LET lhs == parse_expression_multary(q, sec, 0)
    IN IF ~lhs.ok THEN lhs
       ELSE IF AssignmentOp(lhs.p._token_next.id, lhs.exp.type) = "" THEN lhs
       ELSE LET rhs == parse_expression_multary(this("consume", <<lhs.p>>), lhs.sec, 0)
            IN IF ~rhs.ok THEN RE(rhs.p, rhs.sec, FALSE, lhs.exp)
               ELSE IF has(lhs.exp.type, "const") \/ has(lhs.exp.type, "uniform")
                       \/ ~lhs.exp.is_lvalue
               THEN RE(error(rhs.p, 3025), rhs.sec, FALSE, lhs.exp)
               ELSE IF lhs.exp.type.array_length # rhs.exp.type.array_length
                       \/ this("rank", <<lhs.exp.type, rhs.exp.type>>) = 0
               THEN RE(error(rhs.p, 3020), rhs.sec, FALSE, lhs.exp)
               ELSE this("StoreAssigned", <<
                        IF components(rhs.exp.type) > components(lhs.exp.type)
                        THEN warning(rhs.p, 3206) ELSE rhs.p,
                        rhs.sec, lhs.exp, rhs.exp,
                        AssignmentOp(lhs.p._token_next.id, lhs.exp.type)>>)

RECURSIVE ParseSequence(_)
ParseSequence(e) ==
    IF ~e.ok \/ ~peek(e.p, ",") THEN e
    ELSE ParseSequence(this("parse_expression_assignment", <<this("consume", <<e.p>>), e.sec>>))

parse_expression(q, sec) == ParseSequence(this("parse_expression_assignment", <<q, sec>>))

-----------------------------------------------------------------------------
(* Variable declarations.                                                  *)

Unaligned(address, alignment) == address

align(address, alignment) ==
    IF address % alignment # 0 THEN (address + alignment) - (address % alignment)
    ELSE address

\* align with an alignment of 0: `address % 0` is undefined; where the
\* division does not trap it yields some remainder, and the address is
\* address + 0 - remainder (-1 stands for the address of all ones)
AlignUndefined(address, remainder) ==
    IF remainder # 0 THEN address - remainder ELSE address

parse_array_size(q, type0) ==
    LET type == [type0 EXCEPT !.array_length = 0]
    IN IF ~peek(q, "[") THEN RT(q, TRUE, type)
       ELSE LET o == this("consume", <<q>>)
            IN IF peek(o, "]") THEN RT(this("consume", <<o>>), TRUE, [type EXCEPT !.array_length = -1])
               ELSE LET e == this("parse_expression", <<o, <<>>>>)
                        c == IF e.ok THEN this("expect", <<e.p, "]">>) ELSE R(e.p, FALSE)
                    IN IF ~c.ok THEN RT(c.p, FALSE, type)
                       ELSE IF ~e.exp.is_constant
                               \/ ~(is_scalar(e.exp.type) /\ is_integral(e.exp.type))
                       THEN RT(error(c.p, 3058), FALSE, type)
                       ELSE LET n == e.exp.constant[1]
                                t == [type EXCEPT !.array_length = n]
                            IN IF n < 1 \/ n > 65536 THEN RT(error(c.p, 3059), FALSE, t)
                               ELSE RT(c.p, TRUE, t)

\* The annotations between `<` and `>`; `valid` is the success flag of the
\* source
ParseAnnotationList(q, valid) ==
    IF peek(q, ">")
    THEN LET c == this("expect", <<q, ">">>) IN R(c.p, c.ok /\ valid)
    ELSE LET t == this("accept_type_class", <<q, NoType>>)
             q1 == IF t.ok THEN warning(t.p, 4717) ELSE t.p
             n == this("expect", <<q1, "identifier">>)
             e == IF n.ok THEN this("expect", <<n.p, "=">>) ELSE n
             u == IF e.ok THEN this("parse_expression_unary", <<e.p, <<>>>>)
                  ELSE RE(e.p, <<>>, FALSE, NoExpression)
             c == IF u.ok THEN this("expect", <<u.p, ";">>) ELSE R(u.p, FALSE)
         IN IF ~c.ok THEN R(c.p, FALSE)
            ELSE IF ~u.exp.is_constant THEN this("ParseAnnotationList", <<error(c.p, 3011), FALSE>>)
            ELSE this("ParseAnnotationList", <<c.p, valid>>)

parse_annotations(q) ==
    IF ~peek(q, "<") THEN R(q, TRUE) ELSE this("ParseAnnotationList", <<this("consume", <<q>>), TRUE>>)

\* The enumeration names a property value may be given by (s_values)
s_values ==
    [NONE |-> 0, POINT |-> 0, LINEAR |-> 1, ANISOTROPIC |-> 3, WRAP |-> 1,
     REPEAT |-> 1, MIRROR |-> 2, CLAMP |-> 3, BORDER |-> 4, R8 |-> 1, R16F |-> 2,
     R32F |-> 3, RG8 |-> 4, R8G8 |-> 4, RG16 |-> 5, R16G16 |-> 5, RG16F |-> 6,
     R16G16F |-> 6, RG32F |-> 7, R32G32F |-> 7, RGBA8 |-> 8, R8G8B8A8 |-> 8,
     RGBA16 |-> 9, R16G16B16A16 |-> 9, RGBA16F |-> 10, R16G16B16A16F |-> 10,
     RGBA32F |-> 11, R32G32B32A32F |-> 11, DXT1 |-> 12, DXT3 |-> 13, DXT4 |-> 14,
     LATC1 |-> 15, LATC2 |-> 16]

\* ::toupper on the identifiers that occur as property values, pass state
\* values and semantics
toupper(str) ==
    LET lower == [none |-> "NONE", point |-> "POINT", linear |-> "LINEAR",
                  wrap |-> "WRAP", clamp |-> "CLAMP", Linear |-> "LINEAR",
                  Clamp |-> "CLAMP", sv_position |-> "SV_POSITION",
                  sv_target |-> "SV_TARGET", sv_target0 |-> "SV_TARGET0",
                  sv_target1 |-> "SV_TARGET1", texcoord |-> "TEXCOORD",
                  texcoord0 |-> "TEXCOORD0", texcoord1 |-> "TEXCOORD1",
                  sv_depth |-> "SV_DEPTH", vertexid |-> "VERTEXID",
                  sv_vertexid |-> "SV_VERTEXID", sv_pointsize |-> "SV_POINTSIZE",
                  always |-> "ALWAYS", one |-> "ONE", zero |-> "ZERO", keep |-> "KEEP",
                  add |-> "ADD", tex |-> "TEX", c |-> "C"]
    IN IF str \in DOMAIN lower THEN lower[str] ELSE str

ValueProperties ==
    {"Width", "Height", "MipLevels", "Format", "SRGBTexture", "SRGBReadEnable",
     "AddressU", "AddressV", "AddressW", "MinFilter", "MagFilter", "MipFilter",
     "MinLOD", "MaxMipLevel", "MaxLOD", "MipLODBias", "MipMapLodBias"}

\* The properties of the block, up to the closing brace (not consumed);
\* `texture` is the one property that is read again
ParseProperties(q, texture) ==
    LET fail(q1) == [p |-> this("consume_until", <<q1, "}">>), ok |-> FALSE, texture |-> texture]
    IN IF peek(q, "}") THEN [p |-> q, ok |-> TRUE, texture |-> texture]
       ELSE LET n == this("expect", <<q, "identifier">>)
                name == n.p._token.s
                e == IF n.ok THEN this("expect", <<n.p, "=">>) ELSE n
            IN IF ~e.ok THEN fail(e.p)
               ELSE LET b == backup(e.p)
                        a == accept(b, "identifier")
                        upper == this("toupper", <<a.p._token.s>>)
                        named == a.ok /\ upper \in DOMAIN s_values
                        x == IF named
                             THEN RE([a.p EXCEPT !._token.s = upper], <<>>, TRUE,
                                     this("reset_to_rvalue_constant", <<Type("uint", 1, 1),
                                                              a.p._token.loc,
                                                              <<s_values[upper]>>>>))
                             ELSE parse_expression_multary(
                                      IF a.ok THEN restore([a.p EXCEPT !._token.s = upper])
                                      ELSE a.p, <<>>, 0)
                    IN IF ~x.ok THEN fail(error(x.p, 3000))
                       ELSE IF name = "Texture"
                       THEN IF ~is_texture(x.exp.type) THEN fail(error(x.p, 3020))
                            ELSE LET c == this("expect", <<x.p, ";">>)
                                 IN IF ~c.ok THEN fail(c.p)
                                    ELSE this("ParseProperties", <<c.p, x.exp.base>>)
                       ELSE IF ~x.exp.is_constant \/ ~is_scalar(x.exp.type)
                       THEN fail(error(x.p, 3011))
                       ELSE IF name \notin ValueProperties THEN fail(error(x.p, 3004))
                       ELSE LET c == this("expect", <<x.p, ";">>)
                            IN IF ~c.ok THEN fail(c.p) ELSE this("ParseProperties", <<c.p, texture>>)

parse_variable_properties(q) ==
    LET o == this("expect", <<q, "{">>)
    IN IF ~o.ok THEN [p |-> o.p, ok |-> FALSE, texture |-> 0]
       ELSE LET r == this("ParseProperties", <<o.p, 0>>)
            IN IF ~r.ok THEN r
               ELSE LET c == this("expect", <<r.p, "}">>)
                    IN [p |-> c.p, ok |-> c.ok, texture |-> r.texture]

\* The qualifier checks at the head of parse_variable: the error raised, or
\* 0 for none
QualifierError(type, global) ==
    IF is_void(type) THEN 3038
    ELSE IF has(type, "in") \/ has(type, "out") THEN 3055
    ELSE IF global
    THEN IF has(type, "static")
         THEN IF has(type, "uniform") THEN 3007 ELSE 0
         ELSE IF has(type, "const") THEN 3035 ELSE 0
    ELSE IF has(type, "extern") THEN 3006
    ELSE IF has(type, "uniform") THEN 3047
    ELSE IF is_texture(type) \/ is_sampler(type) THEN 3038
    ELSE 0

\* The part of parse_variable between the name and the symbol: semantic,
\* annotations, initializer or property block
ParseVariableTail(q, sec, type, location, global) ==
    LET T(q1, sec1, ok, type1, initializer, semantic, texture) ==
            [p |-> q1, sec |-> sec1, ok |-> ok, type |-> type1,
             initializer |-> initializer, semantic |-> semantic, texture |-> texture]
        F(q1, sec1) == T(q1, sec1, FALSE, type, NoExpression, "", 0)
    IN IF peek(q, ":")
       THEN LET n == this("expect", <<this("consume", <<q>>), "identifier">>)
            IN IF ~n.ok THEN F(n.p, sec)
               ELSE IF ~global THEN F(error(n.p, 3043), sec)
               ELSE T(n.p, sec, TRUE, type, NoExpression,
                      Spell(ToUpper(Characters(n.p._token.s))), 0)
       ELSE LET a == IF global THEN parse_annotations(q) ELSE R(q, TRUE)
            IN IF ~a.ok THEN F(a.p, sec)
               ELSE IF peek(a.p, "=")
               THEN LET i == this("parse_expression_assignment", <<this("consume", <<a.p>>), sec>>)
                    IN IF ~i.ok THEN F(i.p, i.sec)
                       ELSE IF global /\ ~i.exp.is_constant THEN F(error(i.p, 3011), i.sec)
                       ELSE IF \/ (type.array_length >= 0
                                   /\ i.exp.type.array_length # type.array_length)
                               \/ this("rank", <<i.exp.type, type>>) = 0
                       THEN F(error(i.p, 3017), i.sec)
                       ELSE IF /\ (i.exp.type.rows < type.rows \/ i.exp.type.cols < type.cols)
                               /\ ~is_scalar(i.exp.type)
                       THEN F(error(i.p, 3017), i.sec)
                       ELSE LET q1 == IF components(i.exp.type) > components(type)
                                      THEN warning(i.p, 3206) ELSE i.p
                                t == IF is_array(i.exp.type)
                                     THEN [type EXCEPT !.array_length =
                                                           i.exp.type.array_length]
                                     ELSE type
                            IN T(q1, i.sec, TRUE, t, this("add_cast_operation", <<i.exp, t>>), "", 0)
               ELSE IF is_numeric(type)
               THEN IF has(type, "const") THEN F(error(a.p, 3012), sec)
                    ELSE IF ~has(type, "uniform")
                    THEN T(a.p, sec, TRUE, type,
                           this("reset_to_rvalue_constant", <<type, location, <<>>>>), "", 0)
                    ELSE T(a.p, sec, TRUE, type, NoExpression, "", 0)
               ELSE IF peek(a.p, "{")
               THEN LET r == this("parse_variable_properties", <<a.p>>)
                    IN IF ~r.ok THEN F(r.p, sec)
                       ELSE T(r.p, sec, TRUE, type, NoExpression, "", r.texture)
               ELSE T(a.p, sec, TRUE, type, NoExpression, "", 0)

\* The std140 size of a uniform of the global uniform buffer
UniformSize(type) ==
    4 * (IF type.rows = 3 THEN 4 ELSE type.rows) * type.cols * Max(1, type.array_length)

\* The part of parse_variable that defines the variable: the symbol it is
\* known by afterwards
DefineSymbol(q, sec, type0, name, location, global, initializer, semantic, texture) ==
    LET D(q1, sec1, ok, sym) == [p |-> q1, sec |-> sec1, ok |-> ok, symbol |-> sym]
        storage == IF global THEN "Private" ELSE "Function"
    IN IF is_numeric(type0) /\ has(type0, "const") /\ initializer.is_constant
       THEN D(q, sec, TRUE,
              [this("Symbol", <<"OpConstant", 0, type0>>) EXCEPT !.constant = initializer.constant])
       ELSE IF is_texture(type0)
       THEN LET m == make_id(q)
            IN D([m.p EXCEPT !._texture_semantics =
                      Append(@, [id |-> m.id, semantic |-> semantic])],
                 sec, TRUE, this("Symbol", <<"OpVariable", m.id, type0>>))
       ELSE IF is_sampler(type0)
       THEN IF texture = 0 THEN D(error(q, 3012), sec, FALSE, NoSymbol)
            ELSE LET type == [type0 EXCEPT !.is_pointer = TRUE]
                     known == SelectSeq(q._texture_semantics, LAMBDA e : e.id = texture)
                     sem == IF known = <<>> THEN "" ELSE known[1].semantic
                     v == this("define_variable", <<q, name, location, type,
                              IF global THEN "UniformConstant" ELSE "Function", 0>>)
                     q1 == IF sem # ""
                           THEN add_decoration(v.p, v.id, "HlslSemanticGOOGLE", sem)
                           ELSE v.p
                 IN D(q1, sec, TRUE, this("Symbol", <<"OpVariable", v.id, type>>))
       ELSE IF has(type0, "uniform")
       THEN LET m1 == IF q._global_ubo_type = 0
                      THEN LET m == make_id(q) IN [m.p EXCEPT !._global_ubo_type = m.id]
                      ELSE q
                m2 == IF m1._global_ubo_variable = 0
                      THEN LET m == make_id(m1) IN [m.p EXCEPT !._global_ubo_variable = m.id]
                      ELSE m1
                type == IF is_boolean(type0) THEN [type0 EXCEPT !.base = "uint"] ELSE type0
                member_index == Len(m2._uniforms)
                size == UniformSize(type)
                offset == IF size = 0
                          THEN AlignUndefined(m2._global_ubo_offset, m2._outcome.value)
                          ELSE align(m2._global_ubo_offset, size)
                q1 == [m2 EXCEPT !._uniforms = Append(@, [name |-> name, type |-> type]),
                                 !._global_ubo_offset = offset,
                                 !._fault = @ \/ size = 0]
                q2 == add_member_decoration(q1, q1._global_ubo_type, member_index,
                                            "Offset", offset)
            IN D([q2 EXCEPT !._global_ubo_offset = offset + size], sec, TRUE,
                 [this("Symbol", <<"OpVariable", q2._global_ubo_variable, type>>)
                    EXCEPT !.member_index = member_index])
       ELSE LET type == [type0 EXCEPT !.is_pointer = TRUE]
            IN IF initializer.is_constant
               THEN LET c == this("convert_constant", <<q, initializer.type, initializer.constant>>)
                        v == this("define_variable", <<c.p, name, location, type, storage, c.id>>)
                    IN D(v.p, sec, TRUE, this("Symbol", <<"OpVariable", v.id, type>>))
               ELSE LET l == this("access_chain_load", <<q, sec, initializer>>)
                        v == this("define_variable", <<l.p, name, location, type, storage, 0>>)
                        st == IF l.id # 0
                              THEN this("access_chain_store", <<v.p, l.sec,
                                       this("reset_to_lvalue", <<v.id, type, location>>),
                                       l.id, initializer.type>>)
                              ELSE [p |-> v.p, sec |-> l.sec]
                    IN D(st.p, st.sec, TRUE, this("Symbol", <<"OpVariable", v.id, type>>))

parse_variable(q, sec, type0, name, global) ==
    LET location == q._token.loc
        code == this("QualifierError", <<type0, global>>)
        q0 == IF global /\ ~has(type0, "static") /\ ~has(type0, "uniform")
                 /\ ~(is_texture(type0) \/ is_sampler(type0))
                 /\ ~is_void(type0) /\ ~has(type0, "in") /\ ~has(type0, "out")
              THEN warning(q, 5000) ELSE q
        type1 == IF global /\ ~has(type0, "static")
                 THEN [type0 EXCEPT !.qualifiers = @ \cup {"extern", "uniform"}]
                 ELSE type0
    IN IF code # 0 THEN RS(error(q0, code), sec, FALSE)
       ELSE LET a == this("parse_array_size", <<q0, type1>>)
            IN IF ~a.ok THEN RS(a.p, sec, FALSE)
               ELSE LET t == this("ParseVariableTail", <<a.p, sec, a.type, location, global>>)
                    IN IF ~t.ok THEN RS(t.p, t.sec, FALSE)
                       ELSE LET d == this("DefineSymbol", <<t.p, t.sec, t.type, name, location,
                                                  global, t.initializer, t.semantic,
                                                  t.texture>>)
                            IN IF ~d.ok THEN RS(d.p, d.sec, FALSE)
                               ELSE LET i == this("insert_symbol", <<d.p, name, d.symbol, global>>)
                                    IN IF ~i.ok THEN RS(error(i.p, 3003), d.sec, FALSE)
                                       ELSE RS(i.p, d.sec, TRUE)

-----------------------------------------------------------------------------
(* Statements.                                                             *)


Pop(stack) == SubSeq(stack, 1, Len(stack) - 1)
Back(stack) == stack[Len(stack)]

\* The terminator a break or continue statement has just emitted, if any, is
\* marked with the location of the statement
Mark(before, after, location) ==
    IF Len(after) > Len(before) THEN [after EXCEPT ![Len(after)].stmt = location]
    ELSE after

\* mask | bit, for a single bit
BitOr(mask, bit) == IF (mask \div bit) % 2 = 1 THEN mask ELSE mask + bit

\* spv::LoopControl and spv::SelectionControl masks
LoopControlUnrollMask == 1
LoopControlDontUnrollMask == 2
SelectionControlFlattenMask == 1
SelectionControlDontFlattenMask == 2

\* The loop and branch control attributes in front of a statement
ParseAttributes(q, loop_control, selection_control) ==
    IF ~peek(q, "[")
    THEN [p |-> q, ok |-> TRUE, loop_control |-> loop_control,
          selection_control |-> selection_control]
    ELSE LET o == this("consume", <<q>>)
             attribute == o._token_next.s
             n == this("expect", <<o, "identifier">>)
             c == IF n.ok THEN this("expect", <<n.p, "]">>) ELSE n
         IN IF ~c.ok
            THEN [p |-> c.p, ok |-> FALSE, loop_control |-> loop_control,
                  selection_control |-> selection_control]
            ELSE IF attribute = "unroll"
            THEN this("ParseAttributes", <<c.p, BitOr(loop_control, LoopControlUnrollMask), selection_control>>)
            ELSE IF attribute = "loop"
            THEN this("ParseAttributes", <<c.p, BitOr(loop_control, LoopControlDontUnrollMask), selection_control>>)
            ELSE IF attribute = "branch"
            THEN this("ParseAttributes", <<c.p, loop_control,
                     BitOr(selection_control, SelectionControlDontFlattenMask)>>)
            ELSE IF attribute = "flatten"
            THEN this("ParseAttributes", <<c.p, loop_control,
                     BitOr(selection_control, SelectionControlFlattenMask)>>)
            ELSE this("ParseAttributes", <<warning(c.p, 0), loop_control, selection_control>>)

\* `( expression )` as the if, switch, while and do-while statements read it
ParseCondition(q, sec) ==
    LET o == this("expect", <<q, "(">>)
        c == IF o.ok THEN this("parse_expression", <<o.p, sec>>) ELSE RE(o.p, sec, FALSE, NoExpression)
        x == IF c.ok THEN this("expect", <<c.p, ")">>) ELSE R(c.p, FALSE)
    IN RE(x.p, c.sec, x.ok, c.exp)

\* The names behind the type of a declaration: `count` of them are done
ParseDeclarators(q, sec, type, count) ==
    LET c == IF count > 0 THEN this("expect", <<q, ",">>) ELSE R(q, TRUE)
        n == IF c.ok THEN this("expect", <<c.p, "identifier">>) ELSE c
    IN IF ~n.ok THEN RS(n.p, sec, FALSE)
       ELSE LET v == this("parse_variable", <<n.p, sec, type, n.p._token.s, FALSE>>)
            IN IF ~v.ok THEN v
               ELSE IF peek(v.p, ";") THEN v
               ELSE this("ParseDeclarators", <<v.p, v.sec, type, count + 1>>)

ParseIf(q, sec, location, selection_control) ==
    LET true_label == make_id(q)
        false_label == make_id(true_label.p)
        merge_label == make_id(false_label.p)
        c == this("ParseCondition", <<merge_label.p, sec>>)
    IN IF ~c.ok THEN RS(c.p, c.sec, FALSE)
       ELSE IF ~is_scalar(c.exp.type) THEN RS(error(c.p, 3019), c.sec, FALSE)
       ELSE this("IfThen", <<c.p, c.sec, c.exp, location, selection_control,
                             true_label.id, false_label.id, merge_label.id>>)

\* The selection header and the then block of the if statement
IfThen(q, sec, condition, location, selection_control, true_label, false_label, merge_label) ==
    LET l == this("access_chain_load",
                  <<q, sec, this("add_cast_operation", <<condition, Type("bool", 1, 1)>>)>>)
        s1 == this("add_node_without_result", <<l.sec, location, "OpSelectionMerge",
                                      <<merge_label, selection_control>>>>)
        b == leave_block_and_branch_conditional(l.p, s1, l.id, true_label, false_label)
        e1 == this("enter_block", <<b.p, b.sec, true_label>>)
        then == this("parse_statement", <<e1.p, e1.sec, TRUE>>)
    IN IF ~then.ok THEN then
       ELSE this("IfElse", <<then.p, then.sec, false_label, merge_label>>)

\* The else block of the if statement and its merge block
IfElse(q, sec, false_label, merge_label) ==
    LET b1 == leave_block_and_branch(q, sec, merge_label)
        e2 == this("enter_block", <<b1.p, b1.sec, false_label>>)
        else == IF peek(e2.p, "else")
                THEN this("parse_statement", <<this("consume", <<e2.p>>), e2.sec, TRUE>>)
                ELSE RS(e2.p, e2.sec, TRUE)
    IN IF ~else.ok THEN else ELSE this("IfMerge", <<else.p, else.sec, merge_label>>)

IfMerge(q, sec, merge_label) ==
    LET b2 == leave_block_and_branch(q, sec, merge_label)
        e3 == this("enter_block", <<b2.p, b2.sec, merge_label>>)
    IN RS(e3.p, e3.sec, TRUE)

CaseLabelsBeforeDefault(args, default_label, case_literal_and_labels) ==
    args \o case_literal_and_labels \o <<default_label>>

\* Add all case labels to the switch instruction: the default label, then the
\* literal and the label of each case
AddCaseLabels(args, default_label, case_literal_and_labels) ==
    args \o <<default_label>> \o case_literal_and_labels

\* The `case` and `default` labels in front of one statement of a switch
ParseCaseLabels(q, block, current_block, num_case_labels, default_label, case_literal_and_labels) ==
    LET L(q1, block1, ok) ==
            [p |-> q1, sec |-> block1, ok |-> ok, num_case_labels |-> num_case_labels,
             default_label |-> default_label,
             case_literal_and_labels |-> case_literal_and_labels]
    IN IF peek(q, "case")
       THEN LET e == this("parse_expression", <<this("consume", <<q>>), block>>)
            IN IF ~e.ok THEN L(this("consume_until", <<e.p, "}">>), e.sec, FALSE)
               ELSE IF ~is_scalar(e.exp.type) \/ ~e.exp.is_constant
               THEN L(this("consume_until", <<error(e.p, 3020), "}">>), e.sec, FALSE)
               ELSE LET c == this("expect", <<e.p, ":">>)
                    IN IF ~c.ok THEN L(this("consume_until", <<c.p, "}">>), e.sec, FALSE)
                       ELSE this("ParseCaseLabels", <<c.p, e.sec, current_block,
                                num_case_labels + 1, default_label,
                                case_literal_and_labels
                                    \o <<e.exp.constant[1], current_block>>>>)
       ELSE IF peek(q, "default")
       THEN LET c == this("expect", <<this("consume", <<q>>), ":">>)
            IN IF ~c.ok THEN L(this("consume_until", <<c.p, "}">>), block, FALSE)
               ELSE this("ParseCaseLabels", <<c.p, block, current_block, num_case_labels + 1,
                                    current_block, case_literal_and_labels>>)
       ELSE L(q, block, TRUE)

\* The body of a switch statement, collected in switch_body_block, up to the
\* closing brace (not consumed)
ParseSwitchBody(q, block, current_block, num_case_labels, default_label, case_literal_and_labels) ==
    IF peek(q, "}") \/ peek(q, "end_of_file")
    THEN [p |-> q, sec |-> block, ok |-> TRUE, num_case_labels |-> num_case_labels,
          default_label |-> default_label,
          case_literal_and_labels |-> case_literal_and_labels]
    ELSE LET labelled == peek(q, "case") \/ peek(q, "default")
             m == IF labelled THEN make_id(q) ELSE [p |-> q, id |-> current_block]
             b == IF labelled /\ num_case_labels # 0
                  THEN leave_block_and_branch(m.p, block, m.id)
                  ELSE [p |-> m.p, sec |-> block]
             e0 == IF labelled THEN this("enter_block", <<b.p, b.sec, m.id>>) ELSE b
             \* the label is tagged with the token of the first `case` or `default`
             e == [p |-> e0.p, sec |-> Mark(b.sec, e0.sec, q._token_next.loc)]
             l == this("ParseCaseLabels", <<e.p, e.sec, m.id, num_case_labels, default_label,
                                  case_literal_and_labels>>)
         IN IF ~l.ok THEN l
            ELSE LET st == this("parse_statement", <<l.p, l.sec, TRUE>>)
                 IN IF ~st.ok
                    THEN [l EXCEPT !.p = this("consume_until", <<st.p, "}">>), !.sec = st.sec,
                                   !.ok = FALSE]
                    ELSE this("ParseSwitchBody", <<st.p, st.sec, m.id, l.num_case_labels,
                                         l.default_label, l.case_literal_and_labels>>)

ParseSwitch(q, sec, location, selection_control) ==
    LET merge_label == make_id(q)
        c == this("ParseCondition", <<merge_label.p, sec>>)
    IN IF ~c.ok THEN RS(c.p, c.sec, FALSE)
       ELSE IF ~is_scalar(c.exp.type) THEN RS(error(c.p, 3019), c.sec, FALSE)
       ELSE LET l == this("access_chain_load", <<c.p, c.sec,
                                       this("add_cast_operation", <<c.exp, Type("int", 1, 1)>>)>>)
                \* A switch statement leaves the current control flow block
                q1 == [l.p EXCEPT !._current_block = 0]
                s1 == this("add_node_without_result", <<l.sec, location, "OpSelectionMerge",
                                              <<merge_label.id, selection_control>>>>)
                s2 == this("add_node_without_result", <<s1, location, "OpSwitch", <<l.id>>>>)
                switch_node == Len(s2)
                o == this("expect", <<q1, "{">>)
            IN IF ~o.ok THEN RS(o.p, s2, FALSE)
               ELSE LET pushed == [o.p EXCEPT !._loop_break_target_stack =
                                                  Append(@, merge_label.id)]
                        body == this("ParseSwitchBody", <<pushed, <<>>, 0, 0, merge_label.id, <<>>>>)
                        popped(q2) == [q2 EXCEPT !._loop_break_target_stack = Pop(@)]
                    IN IF ~body.ok THEN RS(popped(body.p), s2, FALSE)
                       ELSE LET q3 == IF body.num_case_labels = 0
                                      THEN warning(body.p, 5002) ELSE body.p
                                s3 == [s2 EXCEPT ![switch_node].args =
                                          AddCaseLabels(@, body.default_label,
                                                        body.case_literal_and_labels)]
                                e == this("enter_block", <<q3, s3 \o body.sec, merge_label.id>>)
                                x == this("expect", <<e.p, "}">>)
                            IN RS(popped(x.p), e.sec, x.ok)

\* The targets of break and continue stay on the stacks when the statement
\* of the loop failed
TargetsLeft(q, sec, merge_label, continue_label, scoped) ==
    LET pushed == [q EXCEPT !._loop_break_target_stack = Append(@, merge_label),
                            !._loop_continue_target_stack = Append(@, continue_label)]
        st == this("parse_statement", <<pushed, sec, scoped>>)
    IN IF ~st.ok THEN st
       ELSE RS([st.p EXCEPT !._loop_break_target_stack = Pop(@),
                            !._loop_continue_target_stack = Pop(@)], st.sec, st.ok)

\* The body of a loop: the targets of break and continue are on the stacks
\* while the statement is parsed
ParseLoopBody(q, sec, merge_label, continue_label, scoped) ==
    LET pushed == [q EXCEPT !._loop_break_target_stack = Append(@, merge_label),
                            !._loop_continue_target_stack = Append(@, continue_label)]
        st == this("parse_statement", <<pushed, sec, scoped>>)
    IN RS([st.p EXCEPT !._loop_break_target_stack = Pop(@),
                       !._loop_continue_target_stack = Pop(@)], st.sec, st.ok)

LoopHeaderBranchFirst(q, sec, location, header_label, merge_label, continue_label, loop_control, target) ==
    LET b0 == leave_block_and_branch(q, sec, header_label)
        e == this("enter_block", <<b0.p, b0.sec, header_label>>)
        b1 == leave_block_and_branch(e.p, e.sec, target)
    IN [p |-> b1.p,
        sec |-> this("add_node_without_result", <<b1.sec, location, "OpLoopMerge",
                                        <<merge_label, continue_label, loop_control>>>>)]

\* The header block of a loop: the merge instruction and the branch onwards
LoopHeader(q, sec, location, header_label, merge_label, continue_label, loop_control, target) ==
    LET b0 == leave_block_and_branch(q, sec, header_label)
        e == this("enter_block", <<b0.p, b0.sec, header_label>>)
        s1 == this("add_node_without_result", <<e.sec, location, "OpLoopMerge",
                                      <<merge_label, continue_label, loop_control>>>>)
    IN leave_block_and_branch(e.p, s1, target)

\* The for statement behind `for (`, inside the scope of the loop: the
\* initializer
ParseForLoop(q, sec, location, loop_control) ==
    LET t == this("parse_type", <<q>>)
        init == IF t.ok THEN this("ParseDeclarators", <<t.p, sec, t.type, 0>>)
                ELSE \* the result of the initializer expression is ignored
                     LET e == this("parse_expression", <<t.p, sec>>) IN RS(e.p, e.sec, TRUE)
        semi == IF init.ok THEN this("expect", <<init.p, ";">>) ELSE R(init.p, FALSE)
    IN IF ~semi.ok THEN RS(semi.p, init.sec, FALSE)
       ELSE this("ForCondition", <<semi.p, init.sec, location, loop_control>>)

\* The labels, the header block and the condition of the for statement
ForCondition(q, sec, location, loop_control) ==
    LET header_label == make_id(q)
        loop_label == make_id(header_label.p)
        merge_label == make_id(loop_label.p)
        continue_label == make_id(merge_label.p)
        condition_label == make_id(continue_label.p)
        h == this("LoopHeader", <<condition_label.p, sec, location, header_label.id,
                                  merge_label.id, continue_label.id, loop_control,
                                  condition_label.id>>)
        e1 == this("enter_block", <<h.p, h.sec, condition_label.id>>)
        c == this("parse_expression", <<e1.p, e1.sec>>)
    IN IF c.ok /\ ~is_scalar(c.exp.type) THEN RS(error(c.p, 3019), c.sec, FALSE)
       ELSE this("ForBranch", <<c.p, c.sec, c.ok, c.exp,
                                [header |-> header_label.id, loop |-> loop_label.id,
                                 merge |-> merge_label.id,
                                 continue |-> continue_label.id]>>)

\* The end of the condition block: it is valid for there to be no condition
ForBranch(q, sec, ok, condition, labels) ==
    LET l == IF ok
             THEN this("access_chain_load",
                       <<q, sec, this("add_cast_operation", <<condition, Type("bool", 1, 1)>>)>>)
             ELSE [p |-> q, sec |-> sec, id |-> 0]
        b1 == IF ok
              THEN leave_block_and_branch_conditional(l.p, l.sec, l.id, labels.loop,
                                                      labels.merge)
              ELSE leave_block_and_branch(l.p, l.sec, labels.loop)
        semi2 == this("expect", <<b1.p, ";">>)
    IN IF ~semi2.ok THEN RS(semi2.p, b1.sec, FALSE)
       ELSE this("ForContinue", <<semi2.p, b1.sec, labels>>)

\* The continue block is parsed into a section of its own
ForContinue(q, sec, labels) ==
    LET e2 == this("enter_block", <<q, <<>>, labels.continue>>)
        \* the result of the continue expression is ignored
        ce == this("parse_expression", <<e2.p, e2.sec>>)
        x == this("expect", <<ce.p, ")">>)
    IN IF ~x.ok THEN RS(x.p, sec, FALSE)
       ELSE LET continue_block == leave_block_and_branch(x.p, ce.sec, labels.header)
            IN this("ForBody", <<continue_block.p, sec, continue_block.sec, labels>>)

\* The loop body; the continue section is appended behind it, the merge
\* block follows
ForBody(q, sec, continue_block, labels) ==
    LET e3 == this("enter_block", <<q, sec, labels.loop>>)
        body == this("ParseLoopBody", <<e3.p, e3.sec, labels.merge, labels.continue,
                                        FALSE>>)
    IN IF ~body.ok THEN body
       ELSE LET b2 == leave_block_and_branch(body.p, body.sec, labels.continue)
                e4 == this("enter_block", <<b2.p, b2.sec \o continue_block, labels.merge>>)
            IN RS(e4.p, e4.sec, TRUE)

ParseFor(q, sec, location, loop_control) ==
    LET o == this("expect", <<q, "(">>)
    IN IF ~o.ok THEN RS(o.p, sec, FALSE)
       ELSE LET r == this("ParseForLoop", <<enter_scope(o.p), sec, location, loop_control>>)
            IN RS(leave_scope(r.p), r.sec, r.ok)

\* The while statement behind `while`, inside the scope of the loop
ParseWhileLoop(q, sec, location, loop_control) ==
    LET header_label == make_id(q)
        loop_label == make_id(header_label.p)
        merge_label == make_id(loop_label.p)
        continue_label == make_id(merge_label.p)
        condition_label == make_id(continue_label.p)
        h == this("LoopHeader", <<condition_label.p, sec, location, header_label.id,
                                  merge_label.id, continue_label.id, loop_control,
                                  condition_label.id>>)
        e1 == this("enter_block", <<h.p, h.sec, condition_label.id>>)
        c == this("ParseCondition", <<e1.p, e1.sec>>)
    IN IF ~c.ok THEN RS(c.p, c.sec, FALSE)
       ELSE IF ~is_scalar(c.exp.type) THEN RS(error(c.p, 3019), c.sec, FALSE)
       ELSE this("WhileBody", <<c.p, c.sec, c.exp,
                                [header |-> header_label.id, loop |-> loop_label.id,
                                 merge |-> merge_label.id,
                                 continue |-> continue_label.id]>>)

\* The end of the condition block and the loop body of the while statement
WhileBody(q, sec, condition, labels) ==
    LET l == this("access_chain_load",
                  <<q, sec, this("add_cast_operation", <<condition, Type("bool", 1, 1)>>)>>)
        b1 == leave_block_and_branch_conditional(l.p, l.sec, l.id, labels.loop,
                                                 labels.merge)
        e2 == this("enter_block", <<b1.p, b1.sec, labels.loop>>)
        body == this("ParseLoopBody", <<e2.p, e2.sec, labels.merge, labels.continue,
                                        FALSE>>)
    IN IF ~body.ok THEN body ELSE this("WhileContinue", <<body.p, body.sec, labels>>)

\* The continue block and the merge block of the while statement
WhileContinue(q, sec, labels) ==
    LET b2 == leave_block_and_branch(q, sec, labels.continue)
        e3 == this("enter_block", <<b2.p, b2.sec, labels.continue>>)
        b3 == leave_block_and_branch(e3.p, e3.sec, labels.header)
        e4 == this("enter_block", <<b3.p, b3.sec, labels.merge>>)
    IN RS(e4.p, e4.sec, TRUE)

ParseWhile(q, sec, location, loop_control) ==
    LET r == this("ParseWhileLoop", <<enter_scope(q), sec, location, loop_control>>)
    IN RS(leave_scope(r.p), r.sec, r.ok)

ParseDoWhile(q, sec, location, loop_control) ==
    LET header_label == make_id(q)
        loop_label == make_id(header_label.p)
        merge_label == make_id(loop_label.p)
        continue_label == make_id(merge_label.p)
        h == this("LoopHeader", <<continue_label.p, sec, location, header_label.id,
                                  merge_label.id, continue_label.id, loop_control,
                                  loop_label.id>>)
        e1 == this("enter_block", <<h.p, h.sec, loop_label.id>>)
        body == this("ParseLoopBody", <<e1.p, e1.sec, merge_label.id, continue_label.id,
                                        TRUE>>)
    IN IF ~body.ok THEN body
       ELSE this("DoWhileCondition", <<body.p, body.sec,
                                       [header |-> header_label.id,
                                        loop |-> loop_label.id,
                                        merge |-> merge_label.id,
                                        continue |-> continue_label.id]>>)

\* The continue block of the do-while statement: `while ( condition ) ;`
DoWhileCondition(q, sec, labels) ==
    LET b1 == leave_block_and_branch(q, sec, labels.continue)
        e2 == this("enter_block", <<b1.p, b1.sec, labels.continue>>)
        w == this("expect", <<e2.p, "while">>)
        c == IF w.ok THEN this("ParseCondition", <<w.p, e2.sec>>)
             ELSE RE(w.p, e2.sec, FALSE, NoExpression)
        semi == IF c.ok THEN this("expect", <<c.p, ";">>) ELSE R(c.p, FALSE)
    IN IF ~semi.ok THEN RS(semi.p, c.sec, FALSE)
       ELSE IF ~is_scalar(c.exp.type) THEN RS(error(semi.p, 3019), c.sec, FALSE)
       ELSE this("DoWhileBranch", <<semi.p, c.sec, c.exp, labels>>)

\* The branch back to the header and the merge block of the do-while statement
DoWhileBranch(q, sec, condition, labels) ==
    LET l == this("access_chain_load",
                  <<q, sec, this("add_cast_operation", <<condition, Type("bool", 1, 1)>>)>>)
        b2 == leave_block_and_branch_conditional(l.p, l.sec, l.id, labels.header,
                                                 labels.merge)
        e3 == this("enter_block", <<b2.p, b2.sec, labels.merge>>)
    IN RS(e3.p, e3.sec, TRUE)

ParseBreak(q, sec, location) ==
    IF q._loop_break_target_stack = <<>> THEN RS(error(q, 3518), sec, FALSE)
    ELSE LET b == leave_block_and_branch(q, sec, Back(q._loop_break_target_stack))
             x == this("expect", <<b.p, ";">>)
         IN RS(x.p, Mark(sec, b.sec, location), x.ok)

ContinueToBreakTarget(q, sec, location) ==
    IF q._loop_continue_target_stack = <<>> THEN RS(error(q, 3519), sec, FALSE)
    ELSE LET b == leave_block_and_branch(q, sec, Back(q._loop_break_target_stack))
             x == this("expect", <<b.p, ";">>)
         IN RS(x.p, Mark(sec, b.sec, location), x.ok)

ParseContinue(q, sec, location) ==
    IF q._loop_continue_target_stack = <<>> THEN RS(error(q, 3519), sec, FALSE)
    ELSE LET b == leave_block_and_branch(q, sec, Back(q._loop_continue_target_stack))
             x == this("expect", <<b.p, ";">>)
         IN RS(x.p, Mark(sec, b.sec, location), x.ok)

ParseReturn(q, sec, location) ==
    LET parent == q._functions[q._current_function]
    IN IF ~peek(q, ";")
       THEN LET e == this("parse_expression", <<q, sec>>)
            IN IF ~e.ok THEN RS(this("consume_until", <<e.p, ";">>), e.sec, FALSE)
               ELSE IF is_void(parent.return_type)
               THEN RS(accept(error(e.p, 3079), ";").p, e.sec, FALSE)
               ELSE IF is_array(e.exp.type) \/ this("rank", <<e.exp.type, parent.return_type>>) = 0
               THEN RS(accept(error(e.p, 3017), ";").p, e.sec, FALSE)
               ELSE LET q1 == IF components(e.exp.type) > components(parent.return_type)
                              THEN warning(e.p, 3206) ELSE e.p
                        l == this("access_chain_load", <<q1, e.sec,
                                 this("add_cast_operation", <<e.exp, parent.return_type>>)>>)
                        b == this("leave_block_and_return", <<l.p, l.sec, l.id>>)
                        x == this("expect", <<b.p, ";">>)
                    IN RS(x.p, b.sec, x.ok)
       ELSE IF ~is_void(parent.return_type)
       THEN RS(accept(error(q, 3080), ";").p, sec, FALSE)
       ELSE LET b == this("leave_block_and_return", <<q, sec, 0>>)
                x == this("expect", <<b.p, ";">>)
            IN RS(x.p, b.sec, x.ok)

ParseDiscard(q, sec) ==
    LET b == leave_block_and_kill(q, sec)
        x == this("expect", <<b.p, ";">>)
    IN RS(x.p, b.sec, x.ok)

\* The end of parse_statement: a declaration or an expression statement
ParseDeclarationOrExpression(q, sec) ==
    LET t == this("parse_type", <<q>>)
    IN IF t.ok
       THEN LET d == this("ParseDeclarators", <<t.p, sec, t.type, 0>>)
            IN IF ~d.ok THEN RS(this("consume_until", <<d.p, ";">>), d.sec, FALSE)
               ELSE LET x == this("expect", <<d.p, ";">>) IN RS(x.p, d.sec, x.ok)
       ELSE LET e == this("parse_expression", <<t.p, sec>>)
            IN IF e.ok THEN LET x == this("expect", <<e.p, ";">>) IN RS(x.p, e.sec, x.ok)
               ELSE RS(this("consume_until", <<error(e.p, 3000), ";">>), e.sec, FALSE)

\* A statement that is parsed whether a block is open or not
StatementAnywhere(q) == FALSE

\* if (_current_block == 0): statements are valid only inside a code block
NoBlockOpen(q) == q._current_block = 0

\* The keyword a statement begins with ("" for a declaration or an expression:
\* outside a function nothing but a block and the empty statement is looked
\* for)
StatementKeyword(q) ==
    LET id == q._token_next.id
    IN IF id \in {"{", ";"} THEN id
       ELSE IF q._current_function = NoFunction THEN ""
       ELSE IF id \in {"if", "switch", "for", "while", "do", "break", "continue", "return",
                       "discard"}
       THEN id
       ELSE ""

ParseStatement(q, sec, scoped) ==
    LET a == this("ParseAttributes", <<q, 0, 0>>)
        location == a.p._token_next.loc
        id == StatementKeyword(a.p)
        in == this("consume", <<a.p>>)
    IN CASE ~a.ok -> RS(a.p, sec, FALSE)
         [] a.ok /\ id = "{" -> this("parse_statement_block", <<a.p, sec, scoped>>)
         [] a.ok /\ id = ";" -> RS(in, sec, TRUE)
         [] a.ok /\ id = "if" -> this("ParseIf", <<in, sec, location, a.selection_control>>)
         [] a.ok /\ id = "switch" -> this("ParseSwitch", <<in, sec, location, a.selection_control>>)
         [] a.ok /\ id = "for" -> this("ParseFor", <<in, sec, location, a.loop_control>>)
         [] a.ok /\ id = "while" -> this("ParseWhile", <<in, sec, location, a.loop_control>>)
         [] a.ok /\ id = "do" -> this("ParseDoWhile", <<in, sec, location, a.loop_control>>)
         [] a.ok /\ id = "break" -> this("ParseBreak", <<in, sec, location>>)
         [] a.ok /\ id = "continue" -> this("ParseContinue", <<in, sec, location>>)
         [] a.ok /\ id = "return" -> this("ParseReturn", <<in, sec, location>>)
         [] a.ok /\ id = "discard" -> this("ParseDiscard", <<in, sec>>)
         [] a.ok /\ id = "" -> this("ParseDeclarationOrExpression", <<a.p, sec>>)

parse_statement(q, sec, scoped) ==
    Leaving(q,
            IF NoBlockOpen(q) THEN RS(error(Called(q, "statement"), 3000), sec, FALSE)
            ELSE this("ParseStatement", <<q, sec, scoped>>),
            "parse_statement")

\* The rest of a block is ignored after a statement failed: up to the brace
\* that closes the block, or the end of the file
RECURSIVE SkipBlock(_, _)
SkipBlock(q, level) ==
    IF peek(q, "end_of_file") THEN q
    ELSE IF peek(q, "{") THEN SkipBlock(this("consume", <<q>>), level + 1)
    ELSE IF peek(q, "}")
    THEN IF level = 0 THEN this("consume", <<q>>) ELSE SkipBlock(this("consume", <<q>>), level - 1)
    ELSE SkipBlock(this("consume", <<q>>), level)

\* The statements of a block, up to the closing brace (not consumed)
ParseStatements(q, sec) ==
    IF peek(q, "}") \/ peek(q, "end_of_file") THEN RS(q, sec, TRUE)
    ELSE LET st == this("parse_statement", <<q, sec, TRUE>>)
         IN IF ~st.ok THEN st ELSE this("ParseStatements", <<st.p, st.sec>>)

\* The scope of a block is left when the statements are through and when one
\* of them failed
LeaveBlockScope(q, scoped) == IF scoped THEN leave_scope(q) ELSE q

parse_statement_block(q, sec, scoped) ==
    LET o == this("expect", <<q, "{">>)
    IN Leaving(q,
               IF ~o.ok THEN RS(o.p, sec, FALSE)
               ELSE LET st == this("ParseStatements",
                                   <<IF scoped THEN enter_scope(o.p) ELSE o.p, sec>>)
                        left == LeaveBlockScope(st.p, scoped)
                    IN IF ~st.ok THEN RS(SkipBlock(left, 0), st.sec, FALSE)
                       ELSE LET x == this("expect", <<left, "}">>) IN RS(x.p, st.sec, x.ok),
               "parse_statement_block")

-----------------------------------------------------------------------------
(* Functions and structures.                                               *)

\* semantic_to_builtin: the builtin and the index a semantic stands for.  The
\* index is written only for the numbered semantics.
semantic_to_builtin(semantic, index) ==
    LET upper == ToUpper(Characters(semantic))
        name == Spell(upper)
        target == IF StartsWith(upper, <<"S", "V", "_", "T", "A", "R", "G", "E", "T">>)
                  THEN stol(SubSeq(upper, 10, Len(upper))) ELSE index
        texcoord == IF StartsWith(upper, <<"T", "E", "X", "C", "O", "O", "R", "D">>)
                    THEN stol(SubSeq(upper, 9, Len(upper))) ELSE target
    IN IF name = "SV_POSITION" THEN [builtin |-> "Position", index |-> index]
       ELSE IF name = "SV_POINTSIZE" THEN [builtin |-> "PointSize", index |-> index]
       ELSE IF name = "SV_DEPTH" THEN [builtin |-> "FragDepth", index |-> index]
       ELSE IF name \in {"VERTEXID", "SV_VERTEXID"}
       THEN [builtin |-> "VertexId", index |-> index]
       ELSE [builtin |-> "Max", index |-> texcoord]

\* The qualifier checks on a parameter: the error raised, or 0 for none
ParameterError(type) ==
    IF is_void(type) THEN 3038
    ELSE IF has(type, "extern") THEN 3006
    ELSE IF has(type, "static") THEN 3007
    ELSE IF has(type, "uniform") THEN 3047
    ELSE IF has(type, "out") /\ has(type, "const") THEN 3046
    ELSE 0

\* An optional semantic `: identifier`
ParseSemantic(q) ==
    IF ~peek(q, ":") THEN [p |-> q, ok |-> TRUE, builtin |-> "Max", index |-> 0]
    ELSE LET n == this("expect", <<this("consume", <<q>>), "identifier">>)
             b == this("semantic_to_builtin", <<n.p._token.s, 0>>)
         IN IF ~n.ok THEN [p |-> n.p, ok |-> FALSE, builtin |-> "Max", index |-> 0]
            ELSE [p |-> n.p, ok |-> TRUE, builtin |-> b.builtin, index |-> b.index]

\* The parameters of the function being defined (the last of _functions), up
\* to the closing parenthesis (not consumed)
ParseParameters(q) ==
    IF peek(q, ")") THEN R(q, TRUE)
    ELSE LET info == q._functions[Len(q._functions)]
             c == IF info.parameter_list # <<>> THEN this("expect", <<q, ",">>) ELSE R(q, TRUE)
             t == IF c.ok THEN this("parse_type", <<c.p>>) ELSE RT(c.p, FALSE, NoType)
         IN IF ~c.ok THEN c
            ELSE IF ~t.ok THEN R(error(t.p, 3000), FALSE)
            ELSE LET n == this("expect", <<t.p, "identifier">>)
                     name == n.p._token.s
                     code == this("ParameterError", <<t.type>>)
                     type1 == IF has(t.type, "out") THEN t.type
                              ELSE [t.type EXCEPT !.qualifiers = @ \cup {"in"}]
                     a == this("parse_array_size", <<n.p, type1>>)
                     sem == IF a.ok THEN this("ParseSemantic", <<a.p>>)
                            ELSE [p |-> a.p, ok |-> FALSE, builtin |-> "Max", index |-> 0]
                     type == [a.type EXCEPT !.is_pointer = TRUE]
                     d == this("define_parameter", <<sem.p, name, n.p._token.loc, type>>)
                     i == this("insert_symbol", <<d.p, name, this("Symbol", <<"OpVariable", d.id, type>>), FALSE>>)
                 IN IF ~n.ok THEN n
                    ELSE IF code # 0 THEN R(error(n.p, code), FALSE)
                    ELSE IF ~sem.ok THEN R(sem.p, FALSE)
                    ELSE IF ~i.ok THEN R(error(i.p, 3003), FALSE)
                    ELSE this("ParseParameters", <<
                             [i.p EXCEPT !._functions[Len(q._functions)].parameter_list =
                                 Append(@, [name |-> name, type |-> type,
                                            builtin |-> sem.builtin,
                                            semantic_index |-> sem.index])]>>)

\* parse_function between define_function and the end of the function scope
ParseFunctionBody(q, type, name, location, definition) ==
    LET ps == this("ParseParameters", <<q>>)
        c == IF ps.ok THEN this("expect", <<ps.p, ")">>) ELSE ps
        sem == IF c.ok THEN this("ParseSemantic", <<c.p>>)
               ELSE [p |-> c.p, ok |-> FALSE, builtin |-> "Max", index |-> 0]
    IN IF ~sem.ok THEN R(sem.p, FALSE)
       ELSE IF peek(c.p, ":") /\ is_void(type) THEN R(error(sem.p, 3076), FALSE)
       ELSE this("ParseFunctionBlock",
                 <<[sem.p EXCEPT
                      !._functions[Len(q._functions)].return_builtin = sem.builtin,
                      !._functions[Len(q._functions)].return_semantic_index = sem.index],
                   name, definition, Len(q._functions)>>)

\* A function starts with a new block; its body; the implicit return at its
\* end; only then the symbol of the function is inserted
ParseFunctionBlock(q, name, definition, function) ==
    LET m == make_id(q)
        e == this("enter_block",
                  <<m.p, m.p._functions2[q._current_function].variables, m.id>>)
        q2 == [e.p EXCEPT !._functions2[q._current_function].variables = e.sec]
        b == this("parse_statement_block",
                  <<q2, q2._functions2[q._current_function].definition, FALSE>>)
    IN this("InsertFunction", <<b.p, b.sec, b.ok, name, definition, function>>)

InsertFunction(q, sec, ok, name, definition, function) ==
    LET \* Add implicit return statement to the end of functions
        r == this("leave_block_and_return", <<q, sec, 0>>)
        q3 == [r.p EXCEPT !._functions2[q._current_function].definition = r.sec]
        symbol == [Symbol("OpFunction", definition, Type("function", 0, 0))
                     EXCEPT !.function = function]
        i == this("insert_symbol", <<q3, name, symbol, TRUE>>)
    IN IF ~i.ok THEN R(error(i.p, 3003), FALSE) ELSE R(i.p, ok)

parse_function(q, type, name) ==
    LET location == q._token.loc
        o == this("expect", <<q, "(">>)
    IN Leaving(q,
       IF ~o.ok THEN o
       ELSE IF type.qualifiers # {} THEN R(error(o.p, 3047), FALSE)
       ELSE LET q1 == [o.p EXCEPT !._functions =
                          Append(@, [name |-> name, return_type |-> type,
                                     parameter_list |-> <<>>, definition |-> 0,
                                     entry_point |-> 0, return_builtin |-> "Max",
                                     return_semantic_index |-> 0])]
                d == this("define_function", <<q1, name, location, type>>)
                q2 == [d.p EXCEPT !._functions[Len(q1._functions)].definition = d.id]
                r == this("ParseFunctionBody", <<enter_scope(q2), type, name, location, d.id>>)
            IN R(leave_function(leave_scope(r.p)), r.ok),
       "parse_function")

\* The names behind the type of a struct member declaration
ParseMembers(q, type, count, member_list) ==
    LET M(q1, ok, list) == [p |-> q1, ok |-> ok, member_list |-> list]
        c == IF count > 0 THEN this("expect", <<q, ",">>) ELSE R(q, TRUE)
        n == IF c.ok THEN this("expect", <<c.p, "identifier">>) ELSE c
        a == IF n.ok THEN this("parse_array_size", <<n.p, type>>) ELSE RT(n.p, FALSE, type)
        sem == IF a.ok THEN this("ParseSemantic", <<a.p>>)
               ELSE [p |-> a.p, ok |-> FALSE, builtin |-> "Max", index |-> 0]
        list == Append(member_list, [name |-> n.p._token.s, type |-> a.type,
                                     builtin |-> sem.builtin,
                                     semantic_index |-> sem.index])
    IN IF ~sem.ok THEN M(this("consume_until", <<sem.p, "}">>), FALSE, member_list)
       ELSE IF peek(sem.p, ";") THEN M(sem.p, TRUE, list)
       ELSE this("ParseMembers", <<sem.p, type, count + 1, list>>)

\* The member declarations of a struct, up to the closing brace (not consumed)
ParseMemberList(q, member_list) ==
    LET M(q1, ok, list) == [p |-> q1, ok |-> ok, member_list |-> list]
        F(q1, code) == M(this("consume_until", <<error(q1, code), "}">>), FALSE, member_list)
    IN IF peek(q, "}") THEN M(q, TRUE, member_list)
       ELSE LET t == this("parse_type", <<q>>)
            IN IF ~t.ok THEN F(t.p, 3000)
               ELSE IF is_void(t.type) THEN F(t.p, 3038)
               ELSE IF has(t.type, "in") \/ has(t.type, "out") THEN F(t.p, 3055)
               ELSE IF is_struct(t.type) THEN F(t.p, 3090)
               ELSE LET m == this("ParseMembers", <<t.p, t.type, 0, member_list>>)
                        x == IF m.ok THEN this("expect", <<m.p, ";">>) ELSE R(m.p, FALSE)
                    IN IF ~m.ok THEN m
                       ELSE IF ~x.ok THEN M(this("consume_until", <<x.p, "}">>), FALSE, member_list)
                       ELSE this("ParseMemberList", <<x.p, m.member_list>>)

define_struct(q, name, loc, member_list) ==
    LET m == make_id(q)
    IN [p |-> [m.p EXCEPT !._structs =
                   Append(@, [definition |-> m.id, name |-> name,
                              member_list |-> member_list])],
        id |-> m.id]

parse_struct(q) ==
    LET location == q._token.loc
        a == accept(q, "identifier")
        name == IF a.ok THEN a.p._token.s ELSE "__anonymous_struct"
        o == this("expect", <<a.p, "{">>)
    IN IF ~o.ok THEN o
       ELSE LET m == this("ParseMemberList", <<o.p, <<>>>>)
            IN IF ~m.ok THEN R(m.p, FALSE)
               ELSE LET q1 == IF m.member_list = <<>> THEN warning(m.p, 5001) ELSE m.p
                        d == this("define_struct", <<q1, name, location, m.member_list>>)
                        symbol == this("Symbol", <<"OpTypeStruct", d.id, NoType>>)
                        i == this("insert_symbol", <<d.p, name, symbol, TRUE>>)
                    IN IF ~i.ok THEN R(error(i.p, 3003), FALSE) ELSE this("expect", <<i.p, "}">>)

-----------------------------------------------------------------------------
(* Techniques, passes and entry points.                                    *)

\* The id of the symbols inserted during error recovery: 0xFFFFFFFF, the
\* 32-bit pattern of -1, which no make_id() call returns
InvalidId == -1

\* The members an entry point parameter (or return value) is flattened to
Flattened(q, param) ==
    IF is_struct(param.type)
    THEN SelectSeq(q._structs, LAMBDA e : e.definition = param.type.definition)[1].member_list
    ELSE <<param>>

InterpolationDecorations(q, variable, type) ==
    LET q1 == IF has(type, "noperspective")
              THEN add_decoration(q, variable, "NoPerspective", 0) ELSE q
        q2 == IF has(type, "centroid")
              THEN add_decoration(q1, variable, "Centroid", 0) ELSE q1
    IN IF has(type, "nointerpolation") THEN add_decoration(q2, variable, "Flat", 0) ELSE q2

\* An input variable whose builtin is never rewritten
InputNotRewritten(q, param, is_ps) ==
    LET v == this("define_variable", <<q, "", 0, [param.type EXCEPT !.is_pointer = TRUE], "Input", 0>>)
        q1 == IF param.builtin # "Max"
              THEN add_decoration(v.p, v.id, "BuiltIn", param.builtin)
              ELSE add_decoration(v.p, v.id, "Location", param.semantic_index)
    IN [p |-> this("InterpolationDecorations", <<q1, v.id, param.type>>), id |-> v.id]

create_input_variable(q, param, is_ps) ==
    LET v == this("define_variable", <<q, "", 0, [param.type EXCEPT !.is_pointer = TRUE], "Input", 0>>)
        q1 == IF is_ps /\ param.builtin = "Position"
              THEN add_decoration(v.p, v.id, "BuiltIn", "FragCoord")
              ELSE IF param.builtin # "Max"
              THEN add_decoration(v.p, v.id, "BuiltIn", param.builtin)
              ELSE add_decoration(v.p, v.id, "Location", param.semantic_index)
    IN [p |-> this("InterpolationDecorations", <<q1, v.id, param.type>>), id |-> v.id]

create_output_variable(q, param) ==
    LET v == this("define_variable", <<q, "", 0, [param.type EXCEPT !.is_pointer = TRUE], "Output", 0>>)
        q1 == IF param.builtin # "Max"
              THEN add_decoration(v.p, v.id, "BuiltIn", param.builtin)
              ELSE add_decoration(v.p, v.id, "Location", param.semantic_index)
    IN [p |-> this("InterpolationDecorations", <<q1, v.id, param.type>>), id |-> v.id]

\* The state of the entry point under construction
EP(q, sec, call_params, inputs_and_outputs) ==
    [p |-> q, sec |-> sec, call_params |-> call_params,
     inputs_and_outputs |-> inputs_and_outputs]

OutputVariables(e, members, i) ==
    IF i > Len(members) THEN e
    ELSE LET v == this("create_output_variable", <<e.p, members[i]>>)
         IN this("OutputVariables", <<EP(v.p, e.sec, e.call_params,
                               Append(e.inputs_and_outputs, v.id)), members, i + 1>>)

\* The input variables of the members, each loaded: elements are the values
InputVariables(e, members, i, is_ps, elements) ==
    IF i > Len(members) THEN [e |-> e, elements |-> elements]
    ELSE LET v == this("create_input_variable", <<e.p, members[i], is_ps>>)
             l == this("add_node", <<v.p, e.sec, 0, "OpLoad",
                           [members[i].type EXCEPT !.is_pointer = FALSE], <<v.id>>>>)
         IN this("InputVariables", <<EP(l.p, l.sec, e.call_params,
                              Append(e.inputs_and_outputs, v.id)),
                           members, i + 1, is_ps, Append(elements, l.id)>>)

\* The first loop over the parameters of the entry point function
EntryParameters(e, parameter_list, i, is_ps) ==
    IF i > Len(parameter_list) THEN e
    ELSE LET param == parameter_list[i]
             v == this("define_variable", <<e.p, "", 0, param.type, "Function", 0>>)
             e1 == EP(v.p, e.sec, Append(e.call_params, v.id), e.inputs_and_outputs)
         IN IF has(param.type, "out")
            THEN this("EntryParameters", <<this("OutputVariables", <<e1, Flattened(e1.p, param), 1>>),
                                 parameter_list, i + 1, is_ps>>)
            ELSE LET in == this("InputVariables", <<e1, Flattened(e1.p, param), 1, is_ps, <<>>>>)
                     c == IF is_struct(param.type)
                          THEN this("add_node", <<in.e.p, in.e.sec, 0, "OpCompositeConstruct",
                                        [param.type EXCEPT !.is_pointer = FALSE],
                                        in.elements>>)
                          ELSE [p |-> in.e.p, sec |-> in.e.sec, id |-> in.elements[1]]
                     st == this("add_node_without_result", <<c.sec, 0, "OpStore", <<v.id, c.id>>>>)
                 IN this("EntryParameters", <<EP(c.p, st, in.e.call_params, in.e.inputs_and_outputs),
                                    parameter_list, i + 1, is_ps>>)

\* A value is stored member by member to the outputs from index k on
StoreMembers(q, sec, value, members, i, outputs) ==
    IF i > Len(members) THEN [p |-> q, sec |-> sec]
    ELSE LET x == this("add_node", <<q, sec, 0, "OpCompositeExtract", members[i].type,
                           <<value, i - 1>>>>)
         IN this("StoreMembers", <<x.p,
                this("add_node_without_result", <<x.sec, 0, "OpStore", <<outputs[i], x.id>>>>),
                value, members, i + 1, outputs>>)

\* The copies of the `out` parameters, the input variables not counted
InputsNotCounted(e, parameter_list, i, param_index, inputs_and_outputs_index) ==
    IF i > Len(parameter_list) THEN e
    ELSE LET param == parameter_list[i]
             members == Flattened(e.p, param)
             n == Len(members)
         IN IF has(param.type, "out")
            THEN LET l == this("add_node", <<e.p, e.sec, 0, "OpLoad",
                                   [param.type EXCEPT !.is_pointer = FALSE],
                                   <<e.call_params[param_index + 1]>>>>)
                     outputs == [k \in 1..n |->
                                    e.inputs_and_outputs[inputs_and_outputs_index + k]]
                     st == IF is_struct(param.type)
                           THEN this("StoreMembers", <<l.p, l.sec, l.id, members, 1, outputs>>)
                           ELSE [p |-> l.p,
                                 sec |-> this("add_node_without_result", <<l.sec, 0, "OpStore",
                                                                 <<outputs[1], l.id>>>>)]
                 IN this("EntryResults", <<EP(st.p, st.sec, e.call_params, e.inputs_and_outputs),
                                 parameter_list, i + 1, param_index + 1,
                                 inputs_and_outputs_index + n>>)
            ELSE this("EntryResults", <<e, parameter_list, i + 1, param_index + 1,
                              inputs_and_outputs_index>>)

\* The second loop over the parameters: the `out` parameters are copied to
\* the output variables
EntryResults(e, parameter_list, i, param_index, inputs_and_outputs_index) ==
    IF i > Len(parameter_list) THEN e
    ELSE LET param == parameter_list[i]
             members == Flattened(e.p, param)
             n == Len(members)
         IN IF has(param.type, "out")
            THEN LET l == this("add_node", <<e.p, e.sec, 0, "OpLoad",
                                   [param.type EXCEPT !.is_pointer = FALSE],
                                   <<e.call_params[param_index + 1]>>>>)
                     outputs == [k \in 1..n |->
                                    e.inputs_and_outputs[inputs_and_outputs_index + k]]
                     st == IF is_struct(param.type)
                           THEN this("StoreMembers", <<l.p, l.sec, l.id, members, 1, outputs>>)
                           ELSE [p |-> l.p,
                                 sec |-> this("add_node_without_result", <<l.sec, 0, "OpStore",
                                                                 <<outputs[1], l.id>>>>)]
                 IN this("EntryResults", <<EP(st.p, st.sec, e.call_params, e.inputs_and_outputs),
                                 parameter_list, i + 1, param_index + 1,
                                 inputs_and_outputs_index + n>>)
            ELSE this("EntryResults", <<e, parameter_list, i + 1, param_index + 1,
                              inputs_and_outputs_index + n>>)

\* The glue entry point function of a shader function (an index of
\* _functions) that has none yet
GenerateEntryPoint(q, function, location, is_vs, is_ps) ==
    LET d == this("define_function", <<q, "", location, Type("void", 0, 0)>>)
        q1 == [d.p EXCEPT !._functions[function].entry_point = d.id]
        m == make_id(q1)
        e0 == this("enter_block",
                   <<m.p, m.p._functions2[q1._current_function].variables, m.id>>)
    IN this("EntryCall",
            <<[e0.p EXCEPT !._functions2[q1._current_function].variables = e0.sec],
              function, d.id, location, is_vs, is_ps>>)

\* The parameters of the entry point, the call of the shader function and the
\* copies of its `out` parameters.  The variables of the entry point are added
\* to the function by define_variable; the section of the loops is its
\* definition
EntryCall(q, function, entry_point, location, is_vs, is_ps) ==
    LET function_info == q._functions[function]
        e1 == this("EntryParameters",
                   <<EP(q, <<>>, <<>>, <<>>), function_info.parameter_list, 1, is_ps>>)
        call == this("add_node", <<e1.p, e1.sec, location, "OpFunctionCall",
                                   function_info.return_type,
                                   <<function_info.definition>> \o e1.call_params>>)
        e2 == this("EntryResults",
                   <<EP(call.p, call.sec, e1.call_params, e1.inputs_and_outputs),
                     function_info.parameter_list, 1, 0, 0>>)
    IN this("EntryReturn", <<e2, function, entry_point, call.id, location, is_vs>>)

\* The members of a returned struct: an output variable for each, and the
\* member of the result of the call stored to it
ReturnMembers(e, call_result, members, i) ==
    IF i > Len(members) THEN e
    ELSE LET v == this("create_output_variable", <<e.p, members[i]>>)
             x == this("add_node", <<v.p, e.sec, 0, "OpCompositeExtract", members[i].type,
                                     <<call_result, i - 1>>>>)
             st == this("add_node_without_result", <<x.sec, 0, "OpStore", <<v.id, x.id>>>>)
         IN this("ReturnMembers",
                 <<EP(x.p, st, e.call_params, Append(e.inputs_and_outputs, v.id)),
                   call_result, members, i + 1>>)

\* The return value of the shader function is stored to output variables
EntryReturn(e2, function, entry_point, call_result, location, is_vs) ==
    LET function_info == e2.p._functions[function]
        e3 == IF is_struct(function_info.return_type)
              THEN this("ReturnMembers",
                        <<e2, call_result,
                          Flattened(e2.p, [type |-> function_info.return_type]), 1>>)
              ELSE IF ~is_void(function_info.return_type)
              THEN LET v == this("define_variable", <<e2.p, "", location,
                                [function_info.return_type EXCEPT !.is_pointer = TRUE],
                                "Output", 0>>)
                       q3 == IF function_info.return_builtin # "Max"
                             THEN add_decoration(v.p, v.id, "BuiltIn",
                                                 function_info.return_builtin)
                             ELSE add_decoration(v.p, v.id, "Location",
                                                 function_info.return_semantic_index)
                   IN EP(q3, this("add_node_without_result",
                                  <<e2.sec, 0, "OpStore", <<v.id, call_result>>>>),
                         e2.call_params, Append(e2.inputs_and_outputs, v.id))
              ELSE e2
    IN this("EntryEnd", <<e3, function, entry_point, is_vs>>)

\* The entry point function returns and is added to the entry points
EntryEnd(e3, function, entry_point, is_vs) ==
    LET r == this("leave_block_and_return", <<e3.p, e3.sec, 0>>)
        q4 == [r.p EXCEPT !._functions2[r.p._current_function].definition = r.sec]
    IN [leave_function(q4) EXCEPT !._entry_points =
           Append(@, [name |-> q4._functions[function].name, id |-> entry_point,
                      model |-> IF is_vs THEN "Vertex" ELSE "Fragment",
                      interface |-> e3.inputs_and_outputs])]

\* The enumeration names a pass state value may be given by (s_enum_values)
s_enum_values ==
    [NONE |-> 0, ZERO |-> 0, ONE |-> 1, SRCCOLOR |-> 2, SRCALPHA |-> 3,
     INVSRCCOLOR |-> 4, INVSRCALPHA |-> 5, DESTCOLOR |-> 8, DESTALPHA |-> 6,
     INVDESTCOLOR |-> 9, INVDESTALPHA |-> 7, ADD |-> 1, SUBTRACT |-> 2,
     REVSUBTRACT |-> 3, MIN |-> 4, MAX |-> 5, KEEP |-> 1, REPLACE |-> 3, INVERT |-> 6,
     INCR |-> 7, INCRSAT |-> 4, DECR |-> 8, DECRSAT |-> 5, NEVER |-> 1, ALWAYS |-> 8,
     LESS |-> 2, GREATER |-> 5, LEQUAL |-> 4, LESSEQUAL |-> 4, GEQUAL |-> 7,
     GREATEREQUAL |-> 7, EQUAL |-> 3, NEQUAL |-> 6, NOTEQUAL |-> 6]

ShaderStates == {"VertexShader", "PixelShader"}

TextureStates ==
    {"RenderTarget", "RenderTarget0", "RenderTarget1", "RenderTarget2", "RenderTarget3",
     "RenderTarget4", "RenderTarget5", "RenderTarget6", "RenderTarget7"}

ValueStates ==
    {"SRGBWriteEnable", "BlendEnable", "StencilEnable", "ClearRenderTargets",
     "RenderTargetWriteMask", "ColorWriteMask", "StencilReadMask", "StencilMask",
     "StencilWriteMask", "BlendOp", "BlendOpAlpha", "SrcBlend", "SrcBlendAlpha",
     "DestBlend", "DestBlendAlpha", "StencilFunc", "StencilRef", "StencilPass",
     "StencilPassOp", "StencilFail", "StencilFailOp", "StencilZFail",
     "StencilDepthFail", "StencilDepthFailOp"}

\* An entry point for every reference
GenerateAlways(q, function) == TRUE

\* We need to generate a special entry point function: the function has none
NeedsEntryPoint(q, function) == q._functions[function].entry_point = 0

\* info.vs_entry_point and info.ps_entry_point: the name of the function a
\* pass records as its shader (kept in the record of the calls, with the state)
Recorded(q, state, name) ==
    [q EXCEPT !._history = Append(@, [event |-> "shader", _token_next |-> q._token_next,
                                      _lexer |-> q._lexer, state |-> state,
                                      function |-> name])]

\* A shader or render target state: the value names a symbol
ParseSymbolState(q, state) ==
    LET n == this("expect", <<q, "identifier">>)
        identifier == n.p._token.s
        symbol == this("find_symbol", <<n.p, identifier, current_scope(n.p), FALSE>>)
        F(q1) == R(this("consume_until", <<q1, "}">>), FALSE)
    IN IF ~n.ok THEN F(n.p)
       ELSE IF state \in ShaderStates
       THEN IF symbol.id = 0 THEN F(error(n.p, 3004))
            ELSE IF ~is_function(symbol.type) THEN F(error(n.p, 3020))
            \* Ignore invalid functions that were added during error recovery
            ELSE IF symbol.id = InvalidId THEN F(n.p)
            ELSE LET function == CHOOSE i \in 1..Len(n.p._functions) :
                                     n.p._functions[i].definition = symbol.id
                     g == IF NeedsEntryPoint(n.p, function)
                          THEN this("GenerateEntryPoint", <<n.p, function, n.p._token.loc,
                                                   state = "VertexShader",
                                                   state = "PixelShader">>)
                          ELSE n.p
                 IN R(Recorded(g, state, g._functions[function].name), TRUE)
       ELSE IF symbol.id = 0 THEN F(error(n.p, 3004))
       ELSE IF ~is_texture(symbol.type) THEN F(error(n.p, 3020))
       ELSE R(n.p, TRUE)

\* Any other state: the value is a literal scalar
ParseValueState(q, state, location) ==
    LET b == backup(q)
        a == accept(b, "identifier")
        upper == this("toupper", <<a.p._token.s>>)
        named == a.ok /\ upper \in DOMAIN s_enum_values
        x == IF named
             THEN RE([a.p EXCEPT !._token.s = upper], <<>>, TRUE,
                     this("reset_to_rvalue_constant", <<Type("uint", 1, 1), a.p._token.loc,
                                              <<s_enum_values[upper]>>>>))
             ELSE parse_expression_multary(
                      IF a.ok THEN restore([a.p EXCEPT !._token.s = upper]) ELSE a.p,
                      <<>>, 0)
        F(q1) == R(this("consume_until", <<q1, "}">>), FALSE)
    IN IF ~x.ok THEN F(error(x.p, 3000))
       ELSE IF ~x.exp.is_constant \/ ~is_scalar(x.exp.type) THEN F(error(x.p, 3011))
       ELSE IF state \notin ValueStates THEN F(error(x.p, 3004))
       ELSE R(x.p, TRUE)

\* The states of a pass, up to the closing brace (not consumed)
ParseStates(q) ==
    IF peek(q, "}") THEN R(q, TRUE)
    ELSE LET n == this("expect", <<q, "identifier">>)
             state == n.p._token.s
             e == IF n.ok THEN this("expect", <<n.p, "=">>) ELSE n
             v == IF state \in ShaderStates \cup TextureStates
                  THEN this("ParseSymbolState", <<e.p, state>>)
                  ELSE this("ParseValueState", <<e.p, state, n.p._token.loc>>)
             x == IF v.ok THEN this("expect", <<v.p, ";">>) ELSE v
         IN IF ~e.ok THEN R(this("consume_until", <<e.p, "}">>), FALSE)
            ELSE IF ~v.ok THEN v
            ELSE IF ~x.ok THEN R(this("consume_until", <<x.p, "}">>), FALSE)
            ELSE this("ParseStates", <<x.p>>)

parse_technique_pass(q) ==
    LET k == this("expect", <<Called(q, "pass"), "pass">>)
        \* Passes can have an optional name, so consume that if it exists
        o == IF k.ok THEN this("expect", <<accept(k.p, "identifier").p, "{">>) ELSE k
        st == IF o.ok THEN this("ParseStates", <<o.p>>) ELSE o
    IN IF ~st.ok THEN st ELSE this("expect", <<st.p, "}">>)

\* The passes of a technique, up to the closing brace (not consumed)
ParsePasses(q) ==
    IF peek(q, "}") THEN R(q, TRUE)
    ELSE LET r == this("parse_technique_pass", <<q>>)
         IN IF r.ok THEN this("ParsePasses", <<r.p>>)
            \* If there is another pass definition following, try to parse that
            \* despite the error
            ELSE IF ~peek(r.p, "pass") THEN R(this("consume_until", <<r.p, "}">>), FALSE)
            ELSE this("ParsePasses", <<r.p>>)

parse_technique(q) ==
    LET n == this("expect", <<q, "identifier">>)
        a == IF n.ok THEN parse_annotations(n.p) ELSE n
        o == IF a.ok THEN this("expect", <<a.p, "{">>) ELSE a
        ps == IF o.ok THEN this("ParsePasses", <<o.p>>) ELSE o
    IN IF ~ps.ok THEN ps ELSE this("expect", <<ps.p, "}">>)

-----------------------------------------------------------------------------
(* Top level declarations.                                                 *)

\* The names behind the type of a global variable declaration: `count` of
\* them are done; the first name is the token just consumed
ParseGlobals(q, type, count) ==
    LET c == IF count > 0 THEN this("expect", <<q, ",">>) ELSE R(q, TRUE)
        n == IF count > 0 /\ c.ok THEN this("expect", <<c.p, "identifier">>) ELSE c
        name == n.p._token.s
    IN IF ~n.ok THEN n
       ELSE LET v == this("parse_variable", <<n.p, <<>>, type, name, TRUE>>)
            IN IF ~v.ok
               THEN \* Insert dummy variable into symbol table, so later references
                    \* can be resolved despite the error
                    R(this("consume_until", <<
                          this("insert_symbol", <<v.p, name, this("Symbol", <<"OpVariable", InvalidId, type>>),
                                        TRUE>>).p, ";">>), FALSE)
               ELSE IF peek(v.p, ";") THEN R(v.p, TRUE)
               ELSE this("ParseGlobals", <<v.p, type, count + 1>>)

\* parse_top_level for everything but a namespace, whose declarations are
\* steps of the state machine
ParseDeclaration(q) ==
    IF peek(q, "struct")
    THEN LET r == this("parse_struct", <<this("consume", <<q>>)>>)
         IN IF ~r.ok THEN r ELSE this("expect", <<r.p, ";">>)
    ELSE IF peek(q, "technique") THEN this("parse_technique", <<this("consume", <<q>>)>>)
    ELSE LET t == this("parse_type", <<q>>)
         IN IF t.ok
            THEN LET n == this("expect", <<t.p, "identifier">>)
                     name == n.p._token.s
                 IN IF ~n.ok THEN n
                    ELSE IF peek(n.p, "(")
                    THEN LET f == this("parse_function", <<n.p, t.type, name>>)
                         IN IF f.ok THEN f
                            ELSE \* Insert dummy function into symbol table
                                 R(this("insert_symbol", <<f.p, name,
                                       this("Symbol", <<"OpFunction", InvalidId,
                                              Type("function", 0, 0)>>), TRUE>>).p, FALSE)
                    ELSE LET g == this("ParseGlobals", <<n.p, t.type, 0>>)
                         IN IF ~g.ok THEN g ELSE this("expect", <<g.p, ";">>)
            ELSE IF peek(t.p, ";") THEN R(this("consume", <<t.p>>), TRUE)
            ELSE R(error(this("consume", <<t.p>>), 3000), FALSE)

\* The head of a namespace: `namespace identifier {`
ParseNamespaceHead(q) ==
    LET n == this("expect", <<this("consume", <<q>>), "identifier">>)
        name == n.p._token.s
        o == IF n.ok THEN this("expect", <<n.p, "{">>) ELSE n
    IN IF ~o.ok THEN o ELSE R(enter_namespace(o.p, name), TRUE)

\* The end of run(): the global uniform buffer object is created
CreateGlobals(q) ==
    IF q._global_ubo_type = 0 THEN q
    ELSE LET q1 == [q EXCEPT !._structs =
                       Append(@, [definition |-> q._global_ubo_type, name |-> "$Globals",
                                  member_list |-> q._uniforms])]
             q2 == add_decoration(add_decoration(q1, q._global_ubo_type, "Block", 0),
                                  q._global_ubo_type, "DescriptorSet", 0)
         IN [q2 EXCEPT !._variables =
                Append(@, Instr("OpVariable", q._global_ubo_variable,
                                [Type("struct", 0, 0) EXCEPT
                                    !.qualifiers = {"uniform"}, !.is_pointer = TRUE,
                                    !.definition = q._global_ubo_type],
                                <<>>, 0))]

\* write_module: what the module that is written is made of
Module(q) ==
    [functions |-> q._functions2, variables |-> q._variables,
     decorations |-> q._decorations, member_decorations |-> q._member_decorations,
     entry_points |-> q._entry_points]

\* A call of a member function: the functions of the parser call each other
\* through the object, the whole parser is one recursive definition.  The
\* arguments of a call are evaluated before the function is entered
this(method, args) ==
    CASE args # <<>> /\ method = "lex" -> lex(args[1])
      [] method = "consume" -> consume(args[1])
      [] method = "consume_until" -> consume_until(args[1], args[2])
      [] method = "expect" -> expect(args[1], args[2])
      [] method = "rank" -> rank(args[1], args[2])
      [] method = "Symbol" -> Symbol(args[1], args[2], args[3])
      [] method = "find_symbol" -> find_symbol(args[1], args[2], args[3], args[4])
      [] method = "insert_symbol" -> insert_symbol(args[1], args[2], args[3], args[4])
      [] method = "add_node" -> add_node(args[1], args[2], args[3], args[4], args[5], args[6])
      [] method = "add_node_without_result" -> add_node_without_result(args[1], args[2], args[3], args[4])
      [] method = "enter_block" -> enter_block(args[1], args[2], args[3])
      [] method = "leave_block_and_return" -> leave_block_and_return(args[1], args[2], args[3])
      [] method = "leave_block_and_branch" -> leave_block_and_branch(args[1], args[2], args[3])
      [] method = "leave_block_and_branch_conditional" -> leave_block_and_branch_conditional(args[1], args[2], args[3], args[4], args[5])
      [] method = "convert_constant" -> convert_constant(args[1], args[2], args[3])
      [] method = "define_function" -> define_function(args[1], args[2], args[3], args[4])
      [] method = "define_parameter" -> define_parameter(args[1], args[2], args[3], args[4])
      [] method = "define_variable" -> define_variable(args[1], args[2], args[3], args[4], args[5], args[6])
      [] method = "reset_to_lvalue" -> reset_to_lvalue(args[1], args[2], args[3])
      [] method = "reset_to_rvalue" -> reset_to_rvalue(args[1], args[2], args[3])
      [] method = "reset_to_rvalue_constant" -> reset_to_rvalue_constant(args[1], args[2], args[3])
      [] method = "add_cast_operation" -> add_cast_operation(args[1], args[2])
      [] method = "access_chain_load" -> access_chain_load(args[1], args[2], args[3])
      [] method = "StoreSwizzled" -> StoreSwizzled(args[1], args[2], args[3], args[4], args[5])
      [] method = "access_chain_store" -> access_chain_store(args[1], args[2], args[3], args[4], args[5])
      [] method = "KeywordType" -> KeywordType(args[1], args[2])
      [] method = "IsTypeKeyword" -> IsTypeKeyword(args[1])
      [] method = "accept_type_class" -> accept_type_class(args[1], args[2])
      [] method = "AcceptQualifiersFrom" -> AcceptQualifiersFrom(args[1], args[2], args[3])
      [] method = "accept_type_qualifiers" -> accept_type_qualifiers(args[1], args[2])
      [] method = "parse_type" -> parse_type(args[1])
      [] method = "merge" -> merge(args[1], args[2])
      [] method = "add_index_access" -> add_index_access(args[1], args[2])
      [] method = "SumRank" -> SumRank(args[1], args[2], args[3])
      [] method = "resolve_function_call" -> resolve_function_call(args[1], args[2], args[3], args[4])
      [] method = "ParseArguments" -> ParseArguments(args[1], args[2], args[3])
      [] method = "AllocateParameters" -> AllocateParameters(args[1], args[2], args[3], args[4], args[5], args[6])
      [] method = "CopyIn" -> CopyIn(args[1], args[2], args[3], args[4], args[5])
      [] method = "CopyOut" -> CopyOut(args[1], args[2], args[3], args[4], args[5])
      [] method = "ParseCall" -> ParseCall(args[1], args[2], args[3], args[4], args[5], args[6])
      [] method = "ParseIdentifier" -> ParseIdentifier(args[1], args[2], args[3])
      [] method = "ParseParenthesized" -> ParseParenthesized(args[1], args[2], args[3])
      [] method = "ParseElements" -> ParseElements(args[1], args[2], args[3])
      [] method = "LoadAll" -> LoadAll(args[1], args[2], args[3], args[4], args[5], args[6])
      [] method = "ParseInitializerList" -> ParseInitializerList(args[1], args[2], args[3])
      [] method = "ParseConstructorArguments" -> ParseConstructorArguments(args[1], args[2], args[3])
      [] method = "ParseConstructor" -> ParseConstructor(args[1], args[2], args[3], args[4])
      [] method = "ParseLiteral" -> ParseLiteral(args[1], args[2])
      [] method = "StoreIncremented" -> StoreIncremented(args[1], args[2], args[3], args[4], args[5], args[6])
      [] method = "PrefixOperation" -> PrefixOperation(args[1], args[2], args[3], args[4], args[5])
      [] method = "ParsePrefix" -> ParsePrefix(args[1], args[2], args[3], args[4])
      [] method = "SubscriptVector" -> SubscriptVector(args[1], args[2], args[3], args[4])
      [] method = "SubscriptMatrix" -> SubscriptMatrix(args[1], args[2], args[3], args[4])
      [] method = "SubscriptStruct" -> SubscriptStruct(args[1], args[2], args[3], args[4])
      [] method = "SubscriptScalar" -> SubscriptScalar(args[1], args[2], args[3], args[4])
      [] method = "ParseSubscript" -> ParseSubscript(args[1], args[2], args[3])
      [] method = "ParseIncrement" -> ParseIncrement(args[1], args[2], args[3], args[4], args[5])
      [] method = "ParseIndex" -> ParseIndex(args[1], args[2], args[3])
      [] method = "ParsePostfix" -> ParsePostfix(args[1], args[2], args[3])
      [] method = "parse_expression_unary" -> parse_expression_unary(args[1], args[2])
      [] method = "FoldBinary" -> FoldBinary(args[1], args[2], args[3], args[4], args[5], args[6])
      [] method = "ValueBlock" -> ValueBlock(args[1], args[2], args[3], args[4], args[5], args[6], args[7])
      [] method = "MergeBlock" -> MergeBlock(args[1], args[2], args[3], args[4], args[5], args[6])
      [] method = "EmitShortCircuit" -> EmitShortCircuit(args[1], args[2], args[3], args[4], args[5], args[6], args[7], args[8])
      [] method = "EmitBinary" -> EmitBinary(args[1], args[2], args[3], args[4], args[5], args[6], args[7], args[8])
      [] method = "ParseBinary" -> ParseBinary(args[1], args[2], args[3], args[4], args[5])
      [] method = "EmitConditionalBlocks" -> EmitConditionalBlocks(args[1], args[2], args[3], args[4], args[5], args[6], args[7], args[8])
      [] method = "EmitConditionalSelect" -> EmitConditionalSelect(args[1], args[2], args[3], args[4], args[5], args[6], args[7], args[8])
      [] method = "ParseConditional" -> ParseConditional(args[1], args[2], args[3])
      [] method = "ParseOperators" -> ParseOperators(args[1], args[2], args[3], args[4])
      [] method = "parse_expression_multary" -> parse_expression_multary(args[1], args[2], args[3])
      [] method = "StoreAssigned" -> StoreAssigned(args[1], args[2], args[3], args[4], args[5])
      [] method = "parse_expression_assignment" -> parse_expression_assignment(args[1], args[2])
      [] method = "parse_expression" -> parse_expression(args[1], args[2])
      [] method = "parse_array_size" -> parse_array_size(args[1], args[2])
      [] method = "ParseAnnotationList" -> ParseAnnotationList(args[1], args[2])
      [] method = "toupper" -> toupper(args[1])
      [] method = "ParseProperties" -> ParseProperties(args[1], args[2])
      [] method = "parse_variable_properties" -> parse_variable_properties(args[1])
      [] method = "QualifierError" -> QualifierError(args[1], args[2])
      [] method = "ParseVariableTail" -> ParseVariableTail(args[1], args[2], args[3], args[4], args[5])
      [] method = "DefineSymbol" -> DefineSymbol(args[1], args[2], args[3], args[4], args[5], args[6], args[7], args[8], args[9])
      [] method = "parse_variable" -> parse_variable(args[1], args[2], args[3], args[4], args[5])
      [] method = "ParseAttributes" -> ParseAttributes(args[1], args[2], args[3])
      [] method = "ParseCondition" -> ParseCondition(args[1], args[2])
      [] method = "ParseDeclarators" -> ParseDeclarators(args[1], args[2], args[3], args[4])
      [] method = "ParseIf" -> ParseIf(args[1], args[2], args[3], args[4])
      [] method = "IfThen" -> IfThen(args[1], args[2], args[3], args[4], args[5], args[6], args[7], args[8])
      [] method = "IfElse" -> IfElse(args[1], args[2], args[3], args[4])
      [] method = "IfMerge" -> IfMerge(args[1], args[2], args[3])
      [] method = "ParseCaseLabels" -> ParseCaseLabels(args[1], args[2], args[3], args[4], args[5], args[6])
      [] method = "ParseSwitchBody" -> ParseSwitchBody(args[1], args[2], args[3], args[4], args[5], args[6])
      [] method = "ParseSwitch" -> ParseSwitch(args[1], args[2], args[3], args[4])
      [] method = "ParseLoopBody" -> ParseLoopBody(args[1], args[2], args[3], args[4], args[5])
      [] method = "LoopHeader" -> LoopHeader(args[1], args[2], args[3], args[4], args[5], args[6], args[7], args[8])
      [] method = "ParseForLoop" -> ParseForLoop(args[1], args[2], args[3], args[4])
      [] method = "ForCondition" -> ForCondition(args[1], args[2], args[3], args[4])
      [] method = "ForBranch" -> ForBranch(args[1], args[2], args[3], args[4], args[5])
      [] method = "ForContinue" -> ForContinue(args[1], args[2], args[3])
      [] method = "ForBody" -> ForBody(args[1], args[2], args[3], args[4])
      [] method = "ParseFor" -> ParseFor(args[1], args[2], args[3], args[4])
      [] method = "ParseWhileLoop" -> ParseWhileLoop(args[1], args[2], args[3], args[4])
      [] method = "WhileBody" -> WhileBody(args[1], args[2], args[3], args[4])
      [] method = "WhileContinue" -> WhileContinue(args[1], args[2], args[3])
      [] method = "ParseWhile" -> ParseWhile(args[1], args[2], args[3], args[4])
      [] method = "ParseDoWhile" -> ParseDoWhile(args[1], args[2], args[3], args[4])
      [] method = "DoWhileCondition" -> DoWhileCondition(args[1], args[2], args[3])
      [] method = "DoWhileBranch" -> DoWhileBranch(args[1], args[2], args[3], args[4])
      [] method = "ParseBreak" -> ParseBreak(args[1], args[2], args[3])
      [] method = "ParseContinue" -> ParseContinue(args[1], args[2], args[3])
      [] method = "ParseReturn" -> ParseReturn(args[1], args[2], args[3])
      [] method = "ParseDiscard" -> ParseDiscard(args[1], args[2])
      [] method = "ParseDeclarationOrExpression" -> ParseDeclarationOrExpression(args[1], args[2])
      [] method = "ParseStatement" -> ParseStatement(args[1], args[2], args[3])
      [] method = "parse_statement" -> parse_statement(args[1], args[2], args[3])
      [] method = "ParseStatements" -> ParseStatements(args[1], args[2])
      [] method = "parse_statement_block" -> parse_statement_block(args[1], args[2], args[3])
      [] method = "semantic_to_builtin" -> semantic_to_builtin(args[1], args[2])
      [] method = "ParameterError" -> ParameterError(args[1])
      [] method = "ParseSemantic" -> ParseSemantic(args[1])
      [] method = "ParseParameters" -> ParseParameters(args[1])
      [] method = "ParseFunctionBody" -> ParseFunctionBody(args[1], args[2], args[3], args[4], args[5])
      [] method = "ParseFunctionBlock" -> ParseFunctionBlock(args[1], args[2], args[3], args[4])
      [] method = "InsertFunction" -> InsertFunction(args[1], args[2], args[3], args[4], args[5], args[6])
      [] method = "parse_function" -> parse_function(args[1], args[2], args[3])
      [] method = "ParseMembers" -> ParseMembers(args[1], args[2], args[3], args[4])
      [] method = "ParseMemberList" -> ParseMemberList(args[1], args[2])
      [] method = "define_struct" -> define_struct(args[1], args[2], args[3], args[4])
      [] method = "parse_struct" -> parse_struct(args[1])
      [] method = "InterpolationDecorations" -> InterpolationDecorations(args[1], args[2], args[3])
      [] method = "create_input_variable" -> create_input_variable(args[1], args[2], args[3])
      [] method = "create_output_variable" -> create_output_variable(args[1], args[2])
      [] method = "OutputVariables" -> OutputVariables(args[1], args[2], args[3])
      [] method = "InputVariables" -> InputVariables(args[1], args[2], args[3], args[4], args[5])
      [] method = "EntryParameters" -> EntryParameters(args[1], args[2], args[3], args[4])
      [] method = "StoreMembers" -> StoreMembers(args[1], args[2], args[3], args[4], args[5], args[6])
      [] method = "EntryResults" -> EntryResults(args[1], args[2], args[3], args[4], args[5])
      [] method = "GenerateEntryPoint" -> GenerateEntryPoint(args[1], args[2], args[3], args[4], args[5])
      [] method = "EntryCall" -> EntryCall(args[1], args[2], args[3], args[4], args[5], args[6])
      [] method = "ReturnMembers" -> ReturnMembers(args[1], args[2], args[3], args[4])
      [] method = "EntryReturn" -> EntryReturn(args[1], args[2], args[3], args[4], args[5], args[6])
      [] method = "EntryEnd" -> EntryEnd(args[1], args[2], args[3], args[4])
      [] method = "ParseSymbolState" -> ParseSymbolState(args[1], args[2])
      [] method = "ParseValueState" -> ParseValueState(args[1], args[2], args[3])
      [] method = "ParseStates" -> ParseStates(args[1])
      [] method = "parse_technique_pass" -> parse_technique_pass(args[1])
      [] method = "ParsePasses" -> ParsePasses(args[1])
      [] method = "parse_technique" -> parse_technique(args[1])
      [] method = "ParseGlobals" -> ParseGlobals(args[1], args[2], args[3])
      [] method = "ParseDeclaration" -> ParseDeclaration(args[1])
      [] method = "ParseNamespaceHead" -> ParseNamespaceHead(args[1])
      [] method = "CreateGlobals" -> CreateGlobals(args[1])

-----------------------------------------------------------------------------
(* The parser and the state machine of run().                              *)

NewParser ==
    [_lexer |-> [input |-> <<>>, pos |-> 0],
     _lexer_backup |-> [input |-> <<>>, pos |-> 0],
     _token |-> EndOfFile,
     _token_next |-> EndOfFile,
     _token_backup |-> EndOfFile,
     _errors |-> {},
     _short_circuit |-> FALSE,
     _outcome |-> [trap |-> FALSE, value |-> 0],
     _fault |-> FALSE,
     _symbols |-> <<>>,
     _current_scope |-> [name |-> <<>>, level |-> 0, namespace_level |-> 0],
     _next_id |-> 1,
     _current_block |-> 0,
     _current_function |-> NoFunction,
     _functions |-> <<>>,
     _functions2 |-> <<>>,
     _variables |-> <<>>,
     _constant_lookup |-> <<>>,
     _decorations |-> <<>>,
     _member_decorations |-> <<>>,
     _loop_break_target_stack |-> <<>>,
     _loop_continue_target_stack |-> <<>>,
     _global_ubo_type |-> 0,
     _global_ubo_variable |-> 0,
     _global_ubo_offset |-> 0,
     _uniforms |-> <<>>,
     _texture_semantics |-> <<>>,
     _structs |-> <<>>,
     _entry_points |-> <<>>,
     _history |-> <<>>]

-----------------------------------------------------------------------------
(* The programs compiled.  A statement is a syntax tree: its kind `k`, the  *)
(* literal `n` of a case label and its children `c`.  A function body is    *)
(* printed from its tree, so that what the parser emits for a statement can *)
(* be compared with the statement.                                          *)

Leaf(k) == [k |-> k, n |-> 0, c |-> <<>>]
Node(k, c) == [k |-> k, n |-> 0, c |-> c]
Case(n, s) == [k |-> "case", n |-> n, c |-> <<s>>]
Default(s) == [k |-> "default", n |-> 0, c |-> <<s>>]

RECURSIVE Tokens(_)
RECURSIVE TokensOfAll(_, _)
TokensOfAll(c, i) == IF i > Len(c) THEN <<>> ELSE Tokens(c[i]) \o TokensOfAll(c, i + 1)

\* The tokens a statement is written with
Tokens(a) ==
    CASE a.k = "empty" -> <<Tk(";")>>
      [] a.k \in {"break", "continue", "return", "discard"} -> <<Tk(a.k), Tk(";")>>
      [] a.k = "block" -> <<Tk("{")>> \o TokensOfAll(a.c, 1) \o <<Tk("}")>>
      [] a.k = "if" -> <<Tk("if"), Tk("("), IntLit(1), Tk(")")>> \o Tokens(a.c[1])
      [] a.k = "ifelse" ->
            <<Tk("if"), Tk("("), IntLit(1), Tk(")")>> \o Tokens(a.c[1])
                \o <<Tk("else")>> \o Tokens(a.c[2])
      [] a.k = "while" -> <<Tk("while"), Tk("("), IntLit(1), Tk(")")>> \o Tokens(a.c[1])
      [] a.k = "do" ->
            <<Tk("do")>> \o Tokens(a.c[1])
                \o <<Tk("while"), Tk("("), IntLit(1), Tk(")"), Tk(";")>>
      [] a.k = "for" ->
            <<Tk("for"), Tk("("), Tk(";"), Tk(";"), Tk(")")>> \o Tokens(a.c[1])
      [] a.k = "forx" ->
            <<Tk("for"), Tk("("), Ident("x"), Tk("="), IntLit(1), Tk(";"), Ident("x"),
              Tk(";"), Ident("x"), Tk("="), IntLit(2), Tk(")")>> \o Tokens(a.c[1])
      [] a.k = "switch" ->
            <<Tk("switch"), Tk("("), Ident("x"), Tk(")"), Tk("{")>>
                \o TokensOfAll(a.c, 1) \o <<Tk("}")>>
      [] a.k = "case" -> <<Tk("case"), IntLit(a.n), Tk(":")>> \o Tokens(a.c[1])
      [] a.k = "default" -> <<Tk("default"), Tk(":")>> \o Tokens(a.c[1])

\* The index of the first token of child i of a statement that starts at pos
ChildPos(a, pos, i) ==
    LET before == Len(TokensOfAll(SubSeq(a.c, 1, i - 1), 1))
    IN CASE a.k = "block" -> pos + 1 + before
         [] a.k \in {"if", "while"} -> pos + 4
         [] a.k = "ifelse" -> IF i = 1 THEN pos + 4 ELSE pos + 4 + before + 1
         [] a.k = "do" -> pos + 1
         [] a.k = "for" -> pos + 5
         [] a.k = "forx" -> pos + 12
         [] a.k = "switch" -> pos + 5 + before
         [] a.k = "case" -> pos + 3
         [] a.k = "default" -> pos + 2

\* Nesting depth of the generated statements
MaxDepth == 2

Leaves == {Leaf(k) : k \in {"empty", "break", "continue", "return", "discard"}}

\* A statement of S inside each of the constructs
Wrap(S) ==
    {Node(k, <<s>>) : k \in {"if", "while", "do", "for", "forx", "block"}, s \in S}
        \cup {Node("switch", <<Case(1, s)>>) : s \in S}
        \cup {Node("switch", <<Default(s)>>) : s \in S}

\* A statement of S followed by one of T
Pairs(S, T) ==
    UNION {{Node("block", <<s, t>>), Node("ifelse", <<s, t>>),
            Node("switch", <<Case(1, s), Case(2, t)>>),
            Node("switch", <<Case(1, s), Default(t)>>),
            Node("switch", <<Default(s), Case(1, t)>>)} : s \in S, t \in T}

RECURSIVE Statements(_)
Statements(depth) ==
    IF depth = 0 THEN Leaves
    ELSE IF depth = 1
    THEN Leaves \cup Wrap(Leaves) \cup Pairs(Leaves, {Leaf("empty"), Leaf("break")})
    ELSE Statements(depth - 1) \cup Wrap(Statements(depth - 1))

\* `void f(int x) body`
FunctionTokens(body) ==
    <<Tk("void"), Ident("f"), Tk("("), Tk("int"), Ident("x"), Tk(")")>> \o Tokens(body)

\* The index of the first token of the body of a generated function
BodyPos == Len(FunctionTokens(Leaf("empty")))

Program(kind, tokens, ast) == [kind |-> kind, tokens |-> tokens, ast |-> ast]

FunctionInputs ==
    {Program("function", FunctionTokens(Node("block", <<s>>)), Node("block", <<s>>)) :
        s \in Statements(MaxDepth)}

\* Number of items in the body of the generated switch statements
MaxItems == 3

\* What a switch body is made of: labelled statements, label groups and
\* statements without a label
SwitchItems ==
    UNION {{Case(1, s), Default(s), Case(1, Case(2, s)), Case(3, Default(s)), s} :
              s \in {Leaf("empty"), Leaf("break")}}

RECURSIVE SeqsUpTo(_, _)
\* The sequences over S of length 1..n
SeqsUpTo(S, n) ==
    IF n = 0 THEN {}
    ELSE LET shorter == SeqsUpTo(S, n - 1)
         IN {<<x>> : x \in S} \cup shorter \cup {Append(t, x) : t \in shorter, x \in S}

SwitchInputs ==
    {Program("function", FunctionTokens(Node("block", <<Node("switch", items)>>)),
             Node("block", <<Node("switch", items)>>)) :
        items \in SeqsUpTo(SwitchItems, MaxItems)}

\* Number of declarations in the generated uniform blocks
MaxUniforms == 3

UniformTypes == {"float", "float3", "float4x4", "bool"}
UniformArrays == {0, 3}

UniformName(i) == <<"u1", "u2", "u3", "u4", "u5", "u6">>[i]

\* `uniform type name;` or `uniform type name[n];`
UniformTokens(d, i) ==
    <<Tk("uniform"), Tk(d.type), Ident(UniformName(i))>>
        \o (IF d.array = 0 THEN <<>> ELSE <<Tk("["), IntLit(d.array), Tk("]")>>)
        \o <<Tk(";")>>

RECURSIVE UniformsTokens(_, _)
UniformsTokens(ds, i) ==
    IF i > Len(ds) THEN <<>> ELSE UniformTokens(ds[i], i) \o UniformsTokens(ds, i + 1)

UniformInputs ==
    {Program("uniforms", UniformsTokens(ds, 1), Node("uniforms", ds)) :
        ds \in SeqsUpTo({[k |-> "uniform", type |-> t, array |-> a, n |-> 0, c |-> <<>>] :
                            t \in UniformTypes, a \in UniformArrays}, MaxUniforms)}

\* Number of parameters of the generated self-calling functions
MaxParameters == 2

ParameterName(i) == <<"a1", "a2", "a3", "a4">>[i]

RECURSIVE ParameterTokens(_, _)
ParameterTokens(ts, i) ==
    IF i > Len(ts) THEN <<>>
    ELSE (IF i > 1 THEN <<Tk(",")>> ELSE <<>>)
            \o <<Tk(ts[i]), Ident(ParameterName(i))>> \o ParameterTokens(ts, i + 1)

RECURSIVE ArgumentTokens(_, _)
ArgumentTokens(ts, i) ==
    IF i > Len(ts) THEN <<>>
    ELSE (IF i > 1 THEN <<Tk(",")>> ELSE <<>>)
            \o <<Ident(ParameterName(i))>> \o ArgumentTokens(ts, i + 1)

\* `ret f(t1 a1, ...) { return f(a1, ...); }`, without `return` for void
SelfCallTokens(ret, ts) ==
    <<Tk(ret), Ident("f"), Tk("(")>> \o ParameterTokens(ts, 1) \o <<Tk(")"), Tk("{")>>
        \o (IF ret = "void" THEN <<>> ELSE <<Tk("return")>>)
        \o <<Ident("f"), Tk("(")>> \o ArgumentTokens(ts, 1) \o <<Tk(")"), Tk(";"), Tk("}")>>

SelfCallInputs ==
    {Program("selfcall", SelfCallTokens(ret, ts), Leaf("none")) :
        ret \in {"void", "float", "int"},
        ts \in {<<>>} \cup SeqsUpTo({"float", "int"}, MaxParameters)}

\* The identifiers and the literals of the programs written out below
Names ==
    {"f", "g", "h", "x", "y", "n", "m", "t", "vs", "ps", "Foo", "VertexShader", "PixelShader",
     "a", "b", "c", "u", "v", "w", "M", "S", "P", "BlendOp", "ADD", "add", "SrcBlend",
     "AddressU", "MinFilter", "Texture", "tex", "smp", "CLAMP", "POINT"}
Digits == [i \in 1..3 |-> <<"1", "2", "3">>[i]]

\* A float literal: its value in units of 1/FloatOne
FloatLit(v) == [id |-> "float_literal", s |-> "", v |-> v]

\* The names spelled out
SpelledNames == {Spell(chars) : chars \in Spellings}

Words(ws) ==
    [i \in 1..Len(ws) |->
        IF ws[i] \in Names \cup SpelledNames THEN Ident(ws[i])
        ELSE IF \E d \in 1..3 : Digits[d] = ws[i]
        THEN IntLit(CHOOSE d \in 1..3 : Digits[d] = ws[i])
        ELSE IF ws[i] = "1.5" THEN FloatLit(15)
        ELSE Tk(ws[i])]

\* What a store is made to: a literal, a uniform, a constant, a parameter
StoreTargets == {"1", "u", "c", "x"}

\* What makes it: an assignment, a compound assignment, an increment or a
\* decrement in front or behind, the copy-out of an `out` argument
StoreOperations == {"=", "+=", "++_", "--_", "_++", "_--", "out"}

\* `uniform int u; void g(out int a) { } void f(int x) { const int c = 1;
\* statement }`, the statement applying the operation to the target
StoreTokens(target, operation) ==
    LET T == Words(<<target>>)
    IN Words(<<"uniform", "int", "u", ";",
               "void", "g", "(", "out", "int", "a", ")", "{", "}",
               "void", "f", "(", "int", "x", ")", "{", "const", "int", "c", "=", "1", ";">>)
        \o (CASE operation \in {"=", "+="} -> T \o Words(<<operation, "1">>)
              [] operation = "++_" -> Words(<<"++">>) \o T
              [] operation = "--_" -> Words(<<"--">>) \o T
              [] operation = "_++" -> T \o Words(<<"++">>)
              [] operation = "_--" -> T \o Words(<<"--">>)
              [] operation = "out" -> Words(<<"g", "(">>) \o T \o Words(<<")">>))
        \o Words(<<";", "}">>)

StoreInputs ==
    {Program("store", StoreTokens(target, operation),
             [k |-> "store", target |-> target, operation |-> operation, n |-> 0, c |-> <<>>]) :
        target \in StoreTargets, operation \in StoreOperations}

\* How a parameter is qualified: not at all, `in`, `out`, `inout`
ParameterQualifiers == {"", "in", "out", "inout"}

RECURSIVE QualifiedParameters(_, _)
QualifiedParameters(qs, i) ==
    IF i > Len(qs) THEN <<>>
    ELSE (IF i > 1 THEN <<Tk(",")>> ELSE <<>>)
            \o (IF qs[i] = "" THEN <<>> ELSE <<Tk(qs[i])>>)
            \o <<Tk("int"), Ident(ParameterName(i))>> \o QualifiedParameters(qs, i + 1)

\* `void g(q1 int a1, ...) { } void f(int a1, ...) { g(a1, ...); }`
CallTokens(qs) ==
    <<Tk("void"), Ident("g"), Tk("(")>> \o QualifiedParameters(qs, 1)
        \o <<Tk(")"), Tk("{"), Tk("}")>>
        \o <<Tk("void"), Ident("f"), Tk("(")>> \o ParameterTokens([i \in 1..Len(qs) |-> "int"], 1)
        \o <<Tk(")"), Tk("{"), Ident("g"), Tk("(")>> \o ArgumentTokens(qs, 1)
        \o <<Tk(")"), Tk(";"), Tk("}")>>

CallInputs ==
    {Program("call", CallTokens(qs), [k |-> "call", qualifiers |-> qs, n |-> 0, c |-> <<>>]) :
        qs \in SeqsUpTo(ParameterQualifiers, MaxParameters)}

\* Number of shader states in the generated techniques
MaxStates == 3

\* A shader state: the state and the function it names
ShaderItems == {[state |-> st, function |-> f] : st \in ShaderStates, f \in {"f", "g"}}

RECURSIVE PassTokens(_, _, _)
\* The states, each in a pass of its own or all in one pass
PassTokens(items, i, each) ==
    IF i > Len(items) THEN <<>>
    ELSE (IF each \/ i = 1 THEN <<Tk("pass"), Tk("{")>> ELSE <<>>)
            \o <<Ident(items[i].state), Tk("="), Ident(items[i].function), Tk(";")>>
            \o (IF each \/ i = Len(items) THEN <<Tk("}")>> ELSE <<>>)
            \o PassTokens(items, i + 1, each)

\* `void f() { } void g() { } technique t { passes }`
TechniqueTokens(items, each) ==
    <<Tk("void"), Ident("f"), Tk("("), Tk(")"), Tk("{"), Tk("}"),
      Tk("void"), Ident("g"), Tk("("), Tk(")"), Tk("{"), Tk("}"),
      Tk("technique"), Ident("t"), Tk("{")>> \o PassTokens(items, 1, each) \o <<Tk("}")>>

TechniqueInputs ==
    {Program("technique", TechniqueTokens(items, each),
             [k |-> "technique", items |-> items, each |-> each, n |-> 0, c |-> <<>>]) :
        items \in SeqsUpTo(ShaderItems, MaxStates), each \in BOOLEAN}

\* Number of parameters of the generated shader functions
MaxShaderParameters == 2

\* A parameter of a shader function: qualifier, type and semantic ("" for none)
ShaderParameter(q, type, semantic) == [q |-> q, type |-> type, semantic |-> semantic]

ShaderParameters ==
    {ShaderParameter("", "float4", "SV_POSITION"),
     ShaderParameter("in", "float4", "TEXCOORD1"),
     ShaderParameter("out", "float4", "SV_POSITION"),
     ShaderParameter("out", "float4", "COLOR"),
     ShaderParameter("inout", "float4", "TEXCOORD1"),
     ShaderParameter("", "S", ""),
     ShaderParameter("out", "S", "")}

\* The return type of a shader function and its semantic
ShaderReturns ==
    {ShaderParameter("", "void", ""), ShaderParameter("", "float4", "SV_TARGET1"),
     ShaderParameter("", "float4", "SV_POSITION"), ShaderParameter("", "float4", ""),
     ShaderParameter("", "S", "")}

\* `: semantic`, or nothing
SemanticTokens(semantic) == IF semantic = "" THEN <<>> ELSE <<Tk(":"), Ident(semantic)>>

TypeToken(type) == IF type = "S" THEN Ident("S") ELSE Tk(type)

RECURSIVE ShaderParameterTokens(_, _)
ShaderParameterTokens(ps, i) ==
    IF i > Len(ps) THEN <<>>
    ELSE (IF i > 1 THEN <<Tk(",")>> ELSE <<>>)
            \o (IF ps[i].q = "" THEN <<>> ELSE <<Tk(ps[i].q)>>)
            \o <<TypeToken(ps[i].type), Ident(ParameterName(i))>>
            \o SemanticTokens(ps[i].semantic)
            \o ShaderParameterTokens(ps, i + 1)

\* `struct S { float4 a : SV_POSITION; float4 b : TEXCOORD1; };`
StructTokens ==
    <<Tk("struct"), Ident("S"), Tk("{"),
      Tk("float4"), Ident("a"), Tk(":"), Ident("SV_POSITION"), Tk(";"),
      Tk("float4"), Ident("b"), Tk(":"), Ident("TEXCOORD1"), Tk(";"),
      Tk("}"), Tk(";")>>

\* The members of S: their builtin and semantic index
StructMembers ==
    <<[builtin |-> "Position", semantic_index |-> 0],
      [builtin |-> "Max", semantic_index |-> 1]>>

\* `struct S ...; ret f(parameters) : semantic { } technique t { pass { state = f; } }`
ShaderTokens(ps, ret, state) ==
    StructTokens
        \o <<TypeToken(ret.type), Ident("f"), Tk("(")>> \o ShaderParameterTokens(ps, 1)
        \o <<Tk(")")>> \o SemanticTokens(ret.semantic) \o <<Tk("{"), Tk("}")>>
        \o <<Tk("technique"), Ident("t"), Tk("{"), Tk("pass"), Tk("{"),
             Ident(state), Tk("="), Ident("f"), Tk(";"), Tk("}"), Tk("}")>>

ShaderInputs ==
    {Program("shader", ShaderTokens(ps, ret, state),
             [k |-> "shader", parameters |-> ps, return |-> ret, state |-> state,
              n |-> 0, c |-> <<>>]) :
        ps \in {<<>>} \cup SeqsUpTo(ShaderParameters, MaxShaderParameters),
        ret \in ShaderReturns, state \in ShaderStates}

\* Where a semantic is written: at a parameter, a return type, a member of a
\* struct or a global variable
SemanticPlaces == {"parameter", "return", "member", "variable"}

SemanticTokensAt(place, semantic) ==
    CASE place = "parameter" ->
            <<Tk("void"), Ident("f"), Tk("("), Tk("float4"), Ident("a"), Tk(":"),
              Ident(semantic), Tk(")"), Tk("{"), Tk("}")>>
      [] place = "return" ->
            <<Tk("float4"), Ident("f"), Tk("("), Tk(")"), Tk(":"), Ident(semantic),
              Tk("{"), Tk("}")>>
      [] place = "member" ->
            <<Tk("struct"), Ident("S"), Tk("{"), Tk("float4"), Ident("a"), Tk(":"),
              Ident(semantic), Tk(";"), Tk("}"), Tk(";")>>
      [] place = "variable" ->
            <<Tk("uniform"), Tk("float4"), Ident("u"), Tk(":"), Ident(semantic), Tk(";")>>

SemanticInputs ==
    {Program("semantic", SemanticTokensAt(place, Spell(chars)),
             [k |-> "semantic", place |-> place, semantic |-> chars, n |-> 0, c |-> <<>>]) :
        place \in SemanticPlaces, chars \in Semantics}

\* What is done to a swizzle: read, assigned, incremented, decremented
SwizzleOperations == {"read", "=", "+=", "++_", "--_", "_++", "_--"}

\* `void f(type v) { statement }`, the statement applying the operation to
\* `v.subscript`; a read is the operand of a unary minus
SwizzleTokens(type, subscript, operation) ==
    LET T == <<Ident("v"), Tk("."), Ident(Spell(subscript))>>
    IN <<Tk("void"), Ident("f"), Tk("("), Tk(type), Ident("v"), Tk(")"), Tk("{")>>
        \o (CASE operation = "read" -> <<Tk("-")>> \o T
              [] operation \in {"=", "+="} -> T \o <<Tk(operation), IntLit(1)>>
              [] operation = "++_" -> <<Tk("++")>> \o T
              [] operation = "--_" -> <<Tk("--")>> \o T
              [] operation = "_++" -> T \o <<Tk("++")>>
              [] operation = "_--" -> T \o <<Tk("--")>>)
        \o <<Tk(";"), Tk("}")>>

SwizzleInputs ==
    {Program("swizzle", SwizzleTokens(type, subscript, operation),
             [k |-> "swizzle", type |-> type, subscript |-> subscript,
              operation |-> operation, n |-> 0, c |-> <<>>]) :
        type \in {"float2", "float4"}, subscript \in VectorSubscripts,
        operation \in SwizzleOperations}
      \cup
    {Program("matrix", SwizzleTokens(type, subscript, "read"),
             [k |-> "matrix", type |-> type, subscript |-> subscript,
              operation |-> "read", n |-> 0, c |-> <<>>]) :
        type \in {"float2x2", "float4x4"}, subscript \in MatrixSubscripts}

\* `type x = initializer;`, global or in `void f(float4 v) { }`
InitializerTokens(type, initializer, global) ==
    LET D == <<Tk(type), Ident("x"), Tk("=")>>
                \o (CASE initializer = "1" -> <<IntLit(1)>>
                      [] initializer = "1.5" -> <<FloatLit(15)>>
                      [] initializer = "v" -> <<Ident("v")>>)
                \o <<Tk(";")>>
    IN IF global THEN D
       ELSE <<Tk("void"), Ident("f"), Tk("("), Tk("float4"), Ident("v"), Tk(")"), Tk("{")>>
                \o D \o <<Tk("}")>>

InitializerInputs ==
    {Program("initializer", InitializerTokens(type, initializer, global),
             [k |-> "initializer", type |-> type, initializer |-> initializer,
              global |-> global, n |-> 0, c |-> <<>>]) :
        type \in {"int", "float", "float2"}, initializer \in {"1", "1.5", "v"},
        global \in BOOLEAN}

\* Programs with an error in them
ErrorPrograms ==
    {<<"void", "f", "(", ")", "{", "for", "(", "y", ";", ";", ")", ";", "}">>,
     <<"void", "f", "(", ")", "{", "for", "(", ";", "y", ";", ")", ";", "}">>,
     <<"void", "f", "(", ")", "{", "for", "(", ";", ";", "y", ")", ";", "}">>,
     <<"void", "f", "(", ")", "{", "while", "(", "y", ")", ";", "}">>,
     <<"technique", "t", "{", "pass", "{", "Foo", "=", "1", ";", "}", "pass", "{", "}", "}">>,
     <<"technique", "t", "{", "pass", "{", "Foo", "=", "1", ";", "}", "}">>,
     <<"float", "x", "=", ";">>,
     <<"float", "x", "=", "y", ";">>,
     <<"void", "f", "(", ")", "{", "float", "x", "=", ";", "}">>,
     <<"float", "x", "=", ";", "float", "f", "(", ")", "{", "return", "x", ";", "}">>,
     <<"float", "x", "float", "f", "(", ")", "{", "return", "x", ";", "}">>,
     <<"namespace", "n", "{">>,
     <<"namespace", "n", "{", "float", "x", ";">>,
     <<"namespace", "n", "{", "namespace", "m", "{", "}">>,
     <<"namespace", "n", "{", "float", "x", "=", ";", "}">>,
     <<"void", "f", "(", ")", "{">>,
     <<"void", "f", "(">>,
     <<"struct", "n", "{">>,
     <<"technique", "t", "{", "pass", "{">>,
     <<"}">>,
     <<"void", "f", "(", ")", "{", "g", "(", ")", ";", "}">>}

\* Programs without one
ValidPrograms ==
    {<<>>,
     <<"float", "x", ";">>,
     <<"static", "float", "x", "=", "1", ";", "float", "f", "(", ")", "{", "return", "x", ";", "}">>,
     <<"namespace", "n", "{", "}">>,
     <<"namespace", "n", "{", "float", "x", ";", "}">>,
     <<"namespace", "n", "{", "namespace", "m", "{", "void", "f", "(", ")", "{", "}", "}",
       "float", "x", ";", "}", "float", "y", ";">>,
     <<"void", "vs", "(", ")", "{", "}", "technique", "t", "{", "pass", "{",
       "VertexShader", "=", "vs", ";", "}", "}">>,
     <<"technique", "t", "{", "pass", "{", "}", "}">>,
     <<"float", "g", "(", "float", "x", ")", "{", "return", "x", ";", "}",
       "float", "f", "(", "float", "x", ")", "{", "return", "g", "(", "x", ")", ";", "}">>,
     <<"float", "f", "(", "int", "x", ")", "{", "return", "1", ";", "}",
       "float", "f", "(", "float", "x", ")", "{", "return", "f", "(", "1", ")", ";", "}">>}

\* Programs in which the parser looks ahead: a type in parentheses that is a
\* constructor call, a cast or neither; the value of a sampler property and of
\* a pass state that is the name of an enumeration value or is none
RollbackPrograms ==
    {<<"void", "f", "(", ")", "{", "float", "x", "=", "(", "float", "(", "1", ")", ")", ";", "}">>,
     <<"void", "f", "(", ")", "{", "int", "x", "=", "(", "int", "(", "1.5", ")", ")", ";", "}">>,
     <<"void", "f", "(", ")", "{", "float", "x", "=", "(", "float", ")", "1", ";", "}">>,
     <<"void", "f", "(", ")", "{", "float", "x", "=", "(", "1", ")", ";", "}">>,
     <<"void", "f", "(", ")", "{", "float", "x", "=", "(", "float", "(", "(", "int", "(", "1", ")", ")",
       ")", ")", ";", "}">>,
     <<"texture", "tex", "{", "}", ";",
       "sampler", "smp", "{", "Texture", "=", "tex", ";", "}", ";">>,
     <<"texture", "tex", "{", "}", ";",
       "sampler", "smp", "{", "Texture", "=", "tex", ";", "AddressU", "=", "CLAMP", ";",
       "MinFilter", "=", "POINT", ";", "}", ";">>,
     <<"static", "const", "int", "c", "=", "1", ";",
       "technique", "t", "{", "pass", "{", "BlendOp", "=", "c", ";", "}", "}">>,
     <<"static", "const", "int", "c", "=", "1", ";",
       "technique", "t", "{", "pass", "{", "BlendOp", "=", "c", ";", "SrcBlend", "=", "c", ";",
       "}", "}">>,
     <<"technique", "t", "{", "pass", "{", "BlendOp", "=", "ADD", ";", "}", "}">>,
     <<"technique", "t", "{", "pass", "{", "BlendOp", "=", "add", ";", "SrcBlend", "=", "1", ";",
       "}", "}">>}

\* Global declarations without `uniform`, of a numeric type, of the type
\* string and of a struct type
LayoutPrograms ==
    {<<"float", "x", ";">>,
     <<"string", "w", ";">>,
     <<"struct", "S", "{", "float", "a", ";", "}", ";", "S", "w", ";">>,
     <<"struct", "S", "{", "float", "a", ";", "}", ";", "float3", "v", ";", "S", "w", ";",
       "float", "x", ";">>,
     <<"float", "x", ";", "string", "w", ";", "float4x4", "m", ";">>,
     <<"struct", "S", "{", "float", "a", ";", "}", ";", "static", "S", "w", ";">>}

LayoutInputs == {Program("layout", Words(ws), Leaf("none")) : ws \in LayoutPrograms}

\* Functions of a return type: the body returns a value on every path, on
\* some, on none
ReturningPrograms ==
    {<<"float", "f", "(", ")", "{", "}">>,
     <<"float", "f", "(", "float", "x", ")", "{", "return", "x", ";", "}">>,
     <<"float", "f", "(", "bool", "c", ",", "float", "x", ")", "{",
       "if", "(", "c", ")", "return", "x", ";", "}">>,
     <<"float", "f", "(", "bool", "c", ",", "float", "x", ")", "{",
       "if", "(", "c", ")", "return", "x", ";", "else", "return", "x", ";", "}">>,
     <<"float", "f", "(", "bool", "c", ",", "float", "x", ")", "{",
       "while", "(", "c", ")", "{", "return", "x", ";", "}", "}">>,
     <<"float", "f", "(", ")", "{", "return", ";", "}">>,
     <<"void", "f", "(", ")", "{", "return", ";", "}">>,
     <<"void", "f", "(", "float", "x", ")", "{", "return", "x", ";", "}">>}

ReturningInputs == {Program("returning", Words(ws), Leaf("none")) : ws \in ReturningPrograms}

ProgramInputs ==
    {Program("invalid", Words(ws), Leaf("none")) : ws \in ErrorPrograms}
        \cup {Program("valid", Words(ws), Leaf("none")) : ws \in ValidPrograms}
        \cup {Program("rollback", Words(ws), Leaf("none")) : ws \in RollbackPrograms}

\* Largest dimension written in the generated `vector<T, N>` and
\* `matrix<T, R, C>` (the parser accepts 1 to 4)
MaxDimension == 5

\* The spellings of a type: a keyword, `vector`, `matrix`, `vector<T, N>` and
\* `matrix<T, R, C>`
TypeSpellings ==
    {<<Tk(id)>> : id \in {"void", "string", "texture", "sampler", "vector", "matrix"}}
        \cup {<<Tk(VectorKeywords[b][i])>> : b \in NumericBases, i \in 1..4}
        \cup {<<Tk(MatrixKeywords[b][i])>> : b \in NumericBases, i \in 1..3}
        \cup {<<Tk("vector"), Tk("<"), Tk(t), Tk(","), IntLit(n), Tk(">")>> :
                t \in {"bool", "int", "float", "float2", "void"}, n \in 0..MaxDimension}
        \cup {<<Tk("matrix"), Tk("<"), Tk(t), Tk(","), IntLit(r), Tk(","), IntLit(c), Tk(">")>> :
                t \in {"uint", "float", "float2x2"}, r \in 0..MaxDimension, c \in 0..MaxDimension}
        \cup {<<Tk("vector"), Tk("<"), Tk("vector"), Tk("<"), Tk("int"), Tk(","), IntLit(1),
                Tk(">"), Tk(","), IntLit(3), Tk(">")>>}

\* `type f() { }`
TypeInputs ==
    {Program("type", spelling \o <<Ident("f"), Tk("("), Tk(")"), Tk("{"), Tk("}")>>,
             [k |-> "type", spelling |-> spelling]) : spelling \in TypeSpellings}

\* The operators of a binary operation
BinaryTokens ==
    {"%", "&", "*", "+", "-", "/", "<", ">", "^", "|", "!=", "&&", "<<", "<=", "==", ">>",
     ">=", "||"}

\* A constant `int2(a, b)`
Int2(a, b) == <<Tk("int2"), Tk("("), IntLit(a), Tk(","), IntLit(b), Tk(")")>>

\* The left operands: constants and parameters
LeftOperands ==
    {<<IntLit(6)>>, <<FloatLit(15)>>, <<Tk("true_literal")>>, Int2(4, 2),
     <<Ident("i")>>, <<Ident("x")>>, <<Ident("v")>>}

\* The right operands: constants, some with a lane of 0, and parameters
RightOperands ==
    {<<IntLit(0)>>, <<IntLit(4)>>, <<FloatLit(15)>>, <<[IntLit(3) EXCEPT !.id = "uint_literal"]>>,
     Int2(1, 0), <<Ident("i")>>, <<Ident("u")>>, <<Ident("c")>>, <<Ident("v")>>, <<Ident("w")>>}

\* `void f(int i, uint u, float x, bool c, float2 v, int3 w) { (expression); }`
ExpressionTokens(expression) ==
    <<Tk("void"), Ident("f"), Tk("("), Tk("int"), Ident("i"), Tk(","), Tk("uint"), Ident("u"),
      Tk(","), Tk("float"), Ident("x"), Tk(","), Tk("bool"), Ident("c"), Tk(","),
      Tk("float2"), Ident("v"), Tk(","), Tk("int3"), Ident("w"), Tk(")"), Tk("{")>>
        \o <<Tk("(")>> \o expression \o <<Tk(")"), Tk(";"), Tk("}")>>

\* `void f(int i, int n, float x, float y) { target = operand++; }`, with
\* `--` and with the operator in front as well
IncrementTokens(target, operand, op, prefix) ==
    <<Tk("void"), Ident("f"), Tk("("), Tk("int"), Ident("i"), Tk(","), Tk("int"), Ident("n"),
      Tk(","), Tk("float"), Ident("x"), Tk(","), Tk("float"), Ident("y"), Tk(")"), Tk("{"),
      Ident(target), Tk("=")>>
        \o (IF prefix THEN <<Tk(op), Ident(operand)>> ELSE <<Ident(operand), Tk(op)>>)
        \o <<Tk(";"), Tk("}")>>

IncrementInputs ==
    {Program("increment", IncrementTokens(v[1], v[2], op, prefix),
             [k |-> "increment", target |-> v[1], operand |-> v[2], op |-> op,
              prefix |-> prefix]) :
        v \in {<<"n", "i">>, <<"y", "x">>}, op \in {"++", "--"},
        prefix \in BOOLEAN}

BinaryInputs ==
    {Program("binary", ExpressionTokens((left \o <<Tk(op)>>) \o right),
             [k |-> "binary", left |-> left, op |-> op, right |-> right]) :
        left \in LeftOperands, op \in BinaryTokens, right \in RightOperands}

\* Expressions of more than one operator
ChainExpressions ==
    {<<IntLit(1), Tk("+"), IntLit(2), Tk("*"), IntLit(3)>>,
     <<IntLit(2), Tk("*"), IntLit(3), Tk("+"), IntLit(1)>>,
     <<Ident("i"), Tk("+"), IntLit(2), Tk("*"), IntLit(3), Tk("<"), Ident("x")>>,
     <<Ident("i"), Tk("<"), IntLit(1), Tk("=="), Ident("c")>>,
     <<IntLit(1), Tk("<"), IntLit(2), Tk("=="), Ident("c")>>,
     <<Ident("c"), Tk("&&"), Ident("i"), Tk("<"), IntLit(2), Tk("||"), Ident("c")>>,
     <<Ident("i"), Tk("="), IntLit(6), Tk("/"), Tk("("), IntLit(2), Tk("-"), IntLit(2), Tk(")")>>,
     <<Ident("i"), Tk("="), Ident("c"), Tk("?"), IntLit(1), Tk("<"), IntLit(2), Tk(":"),
       Ident("i"), Tk("/"), IntLit(0)>>}

ChainInputs ==
    {Program("chain", ExpressionTokens(expression), [k |-> "chain", expression |-> expression]) :
        expression \in ChainExpressions}

\* The types of the condition and of the values of a conditional expression
ConditionTypes == {"bool", "int", "float2", "float3", "float2x2"}
ValueTypes == {"int", "float2", "float3", "float4", "float3x3"}
OtherValueTypes == {"float", "float3", "float3x3"}

\* `void f(C c, A a, B b) { c ? a : b; }`
ConditionalTokens(condition, value, other) ==
    <<Tk("void"), Ident("f"), Tk("("), Tk(condition), Ident("c"), Tk(","), Tk(value), Ident("a"),
      Tk(","), Tk(other), Ident("b"), Tk(")"), Tk("{"), Ident("c"), Tk("?"), Ident("a"),
      Tk(":"), Ident("b"), Tk(";"), Tk("}")>>

ConditionalInputs ==
    {Program("conditional", ConditionalTokens(condition, value, other),
             [k |-> "conditional", condition |-> condition, value |-> value, other |-> other]) :
        condition \in ConditionTypes, value \in ValueTypes, other \in OtherValueTypes}

Inputs == TypeInputs \cup BinaryInputs \cup ChainInputs \cup ConditionalInputs \cup FunctionInputs \cup SwitchInputs \cup UniformInputs \cup SelfCallInputs
            \cup ProgramInputs \cup StoreInputs \cup CallInputs
            \cup TechniqueInputs \cup ShaderInputs \cup SemanticInputs
            \cup SwizzleInputs \cup InitializerInputs \cup LayoutInputs
            \cup IncrementInputs \cup ReturningInputs

-----------------------------------------------------------------------------
(* run().                                                                  *)

\* The parser as constructed: run() has not been called
Init ==
    /\ source = Program("none", <<>>, Leaf("none"))
    /\ pc = "start"
    /\ p = NewParser
    /\ frames = <<>>
    /\ success = TRUE
    /\ result = FALSE
    /\ written = <<>>

\* RESHADEFX_SHORT_CIRCUIT, set when the parser is built, makes a difference
\* behind `&&`, `||` and `?` only: a program without them is compiled by one
\* of the builds
Builds(input) ==
    IF \E i \in 1..Len(input.tokens) : input.tokens[i].id \in {"&&", "||", "?"}
    THEN BOOLEAN ELSE {FALSE}

\* What the build makes of an operation with undefined behaviour: the parser
\* is stopped, or the operation has some value
UndefinedValues == {-1, 0, 1}
Outcomes ==
    {[trap |-> TRUE, value |-> 0]} \cup {[trap |-> FALSE, value |-> v] : v \in UndefinedValues}

\* run(input) up to its loop: the lexer is created and the first token read
Start ==
    /\ pc = "start"
    /\ \E input \in Inputs :
       \E short_circuit \in Builds(input) :
        /\ source' = input
        /\ p' = this("consume", <<[p EXCEPT !._lexer = [input |-> input.tokens, pos |-> 0],
                                  !._lexer_backup = [input |-> <<>>, pos |-> 0],
                                  !._short_circuit = short_circuit]>>)
    /\ pc' = "parse"
    /\ UNCHANGED <<frames, success, result, written>>

\* The loop of run() while no namespace is open, the loop of the innermost
\* open namespace otherwise
InLoop ==
    /\ pc = "parse"
    /\ IF frames = <<>> THEN ~peek(p, "end_of_file") ELSE ~peek(p, "}")

\* A parse_top_level call of the current loop has returned ok
Returned(fs, ok) ==
    IF fs = <<>>
    THEN success' = (success /\ ok) /\ frames' = fs
    ELSE frames' = [fs EXCEPT ![Len(fs)] = @ /\ ok] /\ UNCHANGED success

\* parse_top_level at `namespace`: the call stays active after the head
EnterNamespace ==
    /\ InLoop
    /\ peek(p, "namespace")
    /\ LET h == this("ParseNamespaceHead", <<p>>)
       IN /\ p' = h.p
          /\ IF h.ok THEN frames' = Append(frames, TRUE) /\ UNCHANGED success
             ELSE Returned(frames, FALSE)
    /\ UNCHANGED <<source, pc, result, written>>

\* parse_top_level has returned
Declared(r) == p' = r.p /\ Returned(frames, r.ok) /\ pc' = pc

\* A declaration without undefined behaviour has one outcome, whatever the
\* build makes of undefined behaviour; any other is stopped by the trap or
\* goes on with some value
Outcome(defined) ==
    IF ~defined.p._fault THEN Declared(defined)
    ELSE \E outcome \in Outcomes :
            IF outcome.trap
            THEN /\ p' = [p EXCEPT !._outcome = outcome, !._fault = TRUE]
                 /\ pc' = "trapped"
                 /\ UNCHANGED <<frames, success>>
            ELSE Declared(this("ParseDeclaration", <<[p EXCEPT !._outcome = outcome]>>))

\* parse_top_level at anything else
Declaration ==
    /\ InLoop
    /\ ~peek(p, "namespace")
    /\ Outcome(this("ParseDeclaration", <<p>>))
    /\ UNCHANGED <<source, result, written>>

\* The loop of the innermost namespace is over: its parse_top_level returns
LeaveNamespace ==
    /\ pc = "parse"
    /\ frames # <<>>
    /\ peek(p, "}")
    /\ LET x == this("expect", <<leave_namespace(p), "}">>)
       IN p' = x.p /\ Returned(Pop(frames), x.ok /\ Back(frames))
    /\ UNCHANGED <<source, pc, result, written>>

\* The loop of run() is over: the uniform buffer is created, the module is
\* written and run() returns
Finish ==
    /\ pc = "parse"
    /\ frames = <<>>
    /\ peek(p, "end_of_file")
    /\ p' = this("CreateGlobals", <<p>>)
    /\ written' = Append(written, Module(p'))
    /\ result' = success
    /\ pc' = "done"
    /\ UNCHANGED <<source, frames, success>>

Next == Start \/ EnterNamespace \/ Declaration \/ LeaveNamespace \/ Finish

Spec == Init /\ [][Next]_vars


-----------------------------------------------------------------------------
(* What the statements of a generated function body mean, read off the     *)
(* syntax tree: the properties below compare it with what was emitted.     *)

RECURSIVE Flow(_, _, _, _)
RECURSIVE FlowAll(_, _, _, _, _)

\* The first error of a statement, 0 when it has none, and whether a block is
\* open after it.  `open`: a block is open before it; `brk`, `cnt`: the
\* number of enclosing break and continue targets.
Flow(a, open, brk, cnt) ==
    LET F(o, fault) == [open |-> o, fault |-> fault]
    IN IF a.k \in {"case", "default"} THEN Flow(a.c[1], TRUE, brk, cnt)
       ELSE IF ~open THEN F(FALSE, 3000)
       ELSE CASE a.k = "empty" -> F(TRUE, 0)
              [] a.k = "break" -> IF brk = 0 THEN F(TRUE, 3518) ELSE F(FALSE, 0)
              [] a.k = "continue" -> IF cnt = 0 THEN F(TRUE, 3519) ELSE F(FALSE, 0)
              [] a.k \in {"return", "discard"} -> F(FALSE, 0)
              [] a.k = "block" -> FlowAll(a.c, 1, TRUE, brk, cnt)
              [] a.k = "if" -> F(TRUE, Flow(a.c[1], TRUE, brk, cnt).fault)
              [] a.k = "ifelse" ->
                    LET then == Flow(a.c[1], TRUE, brk, cnt).fault
                    IN F(TRUE, IF then # 0 THEN then
                               ELSE Flow(a.c[2], TRUE, brk, cnt).fault)
              [] a.k \in {"while", "do", "for", "forx"} ->
                    F(TRUE, Flow(a.c[1], TRUE, brk + 1, cnt + 1).fault)
              [] a.k = "switch" -> F(TRUE, FlowAll(a.c, 1, FALSE, brk + 1, cnt).fault)

FlowAll(c, i, open, brk, cnt) ==
    IF i > Len(c) THEN [open |-> open, fault |-> 0]
    ELSE LET f == Flow(c[i], open, brk, cnt)
         IN IF f.fault # 0 THEN f ELSE FlowAll(c, i + 1, f.open, brk, cnt)

\* The first error of the body of a generated function
Fault == Flow(source.ast, TRUE, 0, 0).fault

RECURSIVE Jumps(_, _, _, _)
RECURSIVE JumpsAll(_, _, _, _, _)

\* The break and continue statements of a statement that starts at token pos:
\* where each is, and the loop or switch it leaves or continues (the token its
\* keyword is at, 0 when there is none).  `brk`, `cnt`: the innermost enclosing
\* break and continue construct.
Jumps(a, pos, brk, cnt) ==
    CASE a.k = "break" -> {[kind |-> "break", loc |-> pos, construct |-> brk]}
      [] a.k = "continue" -> {[kind |-> "continue", loc |-> pos, construct |-> cnt]}
      [] a.k \in {"while", "do", "for", "forx"} -> JumpsAll(a, pos, 1, pos, pos)
      [] a.k = "switch" -> JumpsAll(a, pos, 1, pos, cnt)
      [] OTHER -> JumpsAll(a, pos, 1, brk, cnt)

JumpsAll(a, pos, i, brk, cnt) ==
    IF i > Len(a.c) THEN {}
    ELSE Jumps(a.c[i], ChildPos(a, pos, i), brk, cnt) \cup JumpsAll(a, pos, i + 1, brk, cnt)

RECURSIVE Constructs(_, _)
RECURSIVE ConstructsAll(_, _, _)

\* The statements of the given kinds within a statement that starts at pos,
\* each with the token it starts at
Constructs(a, pos) == {[loc |-> pos, ast |-> a]} \cup ConstructsAll(a, pos, 1)

ConstructsAll(a, pos, i) ==
    IF i > Len(a.c) THEN {}
    ELSE Constructs(a.c[i], ChildPos(a, pos, i)) \cup ConstructsAll(a, pos, i + 1)

\* The instructions emitted for the body of function i: the prologue block
\* and the definition
Body(i) == p._functions2[i].variables \o p._functions2[i].definition

\* A compiled generated function: run() is over and the function is there
Compiled == pc = "done" /\ source.kind = "function" /\ Len(p._functions2) = 1

IsTerminator(i) == i.op \in Terminators

\* The index in `body` of the label with the given id, 0 when there is none
LabelIndex(body, id) ==
    LET at == {i \in 1..Len(body) : body[i].op = "OpLabel" /\ body[i].result = id}
    IN IF Cardinality(at) = 1 THEN CHOOSE i \in at : TRUE ELSE 0

\* The index of the label that opens the block instruction k is in
BlockOf(body, k) ==
    LET before == {i \in 1..k : body[i].op = "OpLabel"}
    IN IF before = {} THEN 0 ELSE CHOOSE i \in before : \A j \in before : j <= i

\* The labels a terminator branches to
Targets(i) ==
    IF i.op = "OpBranch" THEN {i.args[1]}
    ELSE IF i.op = "OpBranchConditional" THEN {i.args[2], i.args[3]}
    ELSE IF i.op = "OpSwitch"
    THEN {i.args[2]} \cup {i.args[k] : k \in {j \in 4..Len(i.args) : j % 2 = 0}}
    ELSE {}

\* The functions of the arena that were parsed from a function definition
ParsedFunctions ==
    {i \in 1..Len(p._functions2) :
        \E f \in 1..Len(p._functions) :
            p._functions[f].definition = p._functions2[i].declaration[1].result}

\* Each block of `body` ends with a terminator and has no other
WellTerminated(body) ==
    \A i \in 1..Len(body) :
        body[i].op = "OpLabel" =>
            LET later == {j \in (i + 1)..Len(body) : body[j].op = "OpLabel"}
                end == IF later = {} THEN Len(body) + 1
                       ELSE CHOOSE j \in later : \A k \in later : j <= k
            IN /\ end - 1 > i
               /\ IsTerminator(body[end - 1])
               /\ \A j \in (i + 1)..(end - 2) : ~IsTerminator(body[j])

\* The instructions of a module
Instructions(m) ==
    UNION {{f.declaration[i] : i \in 1..Len(f.declaration)}
             \cup {f.variables[i] : i \in 1..Len(f.variables)}
             \cup {f.definition[i] : i \in 1..Len(f.definition)} :
           f \in {m.functions[k] : k \in 1..Len(m.functions)}}
        \cup {m.variables[i] : i \in 1..Len(m.variables)}

Mentions(i, id) == i.result = id \/ \E k \in 1..Len(i.args) : i.args[k] = id

-----------------------------------------------------------------------------
(* Properties.                                                             *)

\* C1: when an error-severity diagnostic was appended to the diagnostics
\* buffer during run(), run() returns false.
C1_ErrorsFailRun == pc = "done" /\ HasError(p) => ~result

\* C2: when run() returns false, an error-severity diagnostic was appended to
\* the diagnostics buffer: nothing fails silently.
C2_FailureHasError == pc = "done" /\ ~result => HasError(p)

\* C3: a module is written only when every parse_top_level call of run()
\* returned true, and no written module mentions the id of a dummy symbol.
C3_WrittenOnlyOnSuccess ==
    \A k \in 1..Len(written) :
        /\ success
        /\ \A i \in Instructions(written[k]) : ~Mentions(i, InvalidId)

\* A parse_top_level call of a running loop of run() that leaves run() in the
\* state it was in, but for the diagnostics it appends (the parser never reads
\* them): the loop is still running after it
NoProgress ==
    /\ InLoop
    /\ ~peek(p, "namespace")
    /\ LET r == this("ParseDeclaration", <<p>>)
       IN /\ [r.p EXCEPT !._errors = p._errors, !._history = p._history] = p
          /\ IF frames = <<>> THEN success = (success /\ r.ok)
             ELSE Back(frames) = (Back(frames) /\ r.ok)

\* C4: run() terminates on every token stream that ends in end_of_file: error
\* recovery always makes progress and every loop exits at end_of_file, so no
\* parse_top_level call leaves a loop of run() running in the state it was in
\* (run() is deterministic: such a call is repeated for ever).
C4_RunTerminates == ~NoProgress

\* C5: in the body emitted for a successfully parsed function, every basic
\* block ends with exactly one terminator and contains no other terminator.
C5_BlocksTerminated ==
    pc = "done" /\ result => \A i \in ParsedFunctions : WellTerminated(Body(i))

\* C10: a call inside the body of f that names f itself, with arguments that
\* match f's parameters, is rejected with error 3500.
C10_RecursionRejected == pc = "done" /\ source.kind = "selfcall" => HasCode(p, 3500)

\* Where the merge instruction of the loop, switch or if statement that
\* starts at token loc is
MergeIndex(body, loc) ==
    {i \in 1..Len(body) :
        body[i].op \in {"OpLoopMerge", "OpSelectionMerge"} /\ body[i].loc = loc}

\* The instruction emitted for the break or continue statement at token loc
Tagged(body, loc) == {i \in 1..Len(body) : body[i].stmt = loc}

\* The one branch of the jump goes where the merge instruction of its loop or
\* switch says
JumpsThere(body, j) ==
    /\ Cardinality(Tagged(body, j.loc)) = 1
    /\ Cardinality(MergeIndex(body, j.construct)) = 1
    /\ LET branch == body[CHOOSE i \in Tagged(body, j.loc) : TRUE]
           header == body[CHOOSE i \in MergeIndex(body, j.construct) : TRUE]
       IN /\ branch.op = "OpBranch"
          /\ branch.args = <<IF j.kind = "break" THEN header.args[1] ELSE header.args[2]>>
          /\ j.kind = "continue" => header.op = "OpLoopMerge"

\* C6: a break branches to the merge label of the innermost enclosing loop or
\* switch and a continue to the continue label of the innermost enclosing
\* loop; a break outside of any loop or switch is rejected with error 3518 and
\* a continue outside of any loop with error 3519, and no branch is emitted
\* for either.
C6_JumpTargets ==
    Compiled =>
        LET jumps == Jumps(source.ast, BodyPos, 0, 0)
        IN /\ result => \A j \in jumps : JumpsThere(Body(1), j)
           /\ \A j \in jumps : j.construct = 0 => Tagged(Body(1), j.loc) = {}
           /\ Fault = 3518 => HasCode(p, 3518) /\ ~result
           /\ Fault = 3519 => HasCode(p, 3519) /\ ~result

\* A continue statement inside a switch inside a loop was compiled
C6_Witness ==
    /\ Compiled
    /\ result
    /\ \E c \in Constructs(source.ast, BodyPos) :
        /\ c.ast.k = "switch"
        /\ \E j \in Jumps(c.ast, c.loc, 0, 0) :
            /\ j.kind = "continue"
            /\ j.construct = 0
            /\ \E i \in Tagged(Body(1), j.loc) : Body(1)[i].op = "OpBranch"

RECURSIVE CaseLabels(_, _, _)
\* The literal of each `case` of the label group `item` (`case` and
\* `default` labels in front of one statement), each with the label of the
\* block opened at the group
CaseLabels(item, label, default) ==
    IF item.k = "case"
    THEN <<item.n, label>> \o CaseLabels(item.c[1], label, default)
    ELSE IF item.k = "default" THEN CaseLabels(item.c[1], label, default)
    ELSE <<>>

RECURSIVE HasDefault(_)
HasDefault(item) ==
    IF item.k = "default" THEN TRUE
    ELSE IF item.k = "case" THEN HasDefault(item.c[1])
    ELSE FALSE

\* The label of the block opened at the label group that starts at token loc
GroupLabel(body, loc) ==
    LET at == {i \in 1..Len(body) : body[i].op = "OpLabel" /\ body[i].stmt = loc}
    IN IF Cardinality(at) = 1 THEN body[CHOOSE i \in at : TRUE].result ELSE 0

RECURSIVE SwitchCases(_, _, _, _)
\* The (literal, label) pairs of the switch statement `a` at pos, from item i
SwitchCases(body, a, pos, i) ==
    IF i > Len(a.c) THEN <<>>
    ELSE CaseLabels(a.c[i], GroupLabel(body, ChildPos(a, pos, i)), 0)
            \o SwitchCases(body, a, pos, i + 1)

\* The default target of the switch statement `a` at pos
SwitchDefault(body, a, pos, merge_label) ==
    LET groups == {i \in 1..Len(a.c) : HasDefault(a.c[i])}
    IN IF groups = {} THEN merge_label
       ELSE GroupLabel(body, ChildPos(a, pos, CHOOSE i \in groups : \A j \in groups : j <= i))

\* What is emitted for the switch statement `a` at pos
SwitchEmitted(body, a, pos) ==
    LET merges == {i \in MergeIndex(body, pos) : body[i].op = "OpSelectionMerge"}
        switches == {i \in 1..Len(body) : body[i].op = "OpSwitch" /\ body[i].loc = pos}
        last == pos + Len(Tokens(a)) - 1
    IN /\ Cardinality(merges) = 1
       /\ Cardinality(switches) = 1
       /\ LET sm == CHOOSE i \in merges : TRUE
              sw == CHOOSE i \in switches : TRUE
              args == body[sw].args
          IN /\ sw = sm + 1
             \* the selector comes before
             /\ \E k \in 1..(sm - 1) : body[k].result = args[1] /\ body[k].loc = pos + 2
             /\ \A k \in 1..Len(body) : body[k].loc = pos + 2 => k < sm
             \* the body comes after
             /\ \A k \in 1..Len(body) :
                    (body[k].stmt \in (pos + 5)..last \/ body[k].loc \in (pos + 5)..last)
                        => k > sw
             /\ \A i \in 1..Len(a.c) :
                    a.c[i].k \in {"case", "default"}
                        => LabelIndex(body, GroupLabel(body, ChildPos(a, pos, i))) > sw
             /\ LabelIndex(body, body[sm].args[1]) > sw
             \* the operands
             /\ args = <<args[1], SwitchDefault(body, a, pos, body[sm].args[1])>>
                          \o SwitchCases(body, a, pos, 1)

\* C7: OpSelectionMerge and OpSwitch come after the instructions of the
\* selector and before every instruction of the switch body; the operands of
\* OpSwitch are the selector, the default target and one (literal, label) pair
\* per case in source order, the label being the block opened at that case;
\* the default target is the block of the default label (of the last one when
\* there are several), the merge label when there is none.
C7_SwitchOperands ==
    Compiled /\ result =>
        \A c \in Constructs(source.ast, BodyPos) :
            c.ast.k = "switch" => SwitchEmitted(Body(1), c.ast, c.loc)

\* `case 1: case 2: ; break; default: ;` was compiled
C7_Witness ==
    /\ Compiled
    /\ result
    /\ source.ast = Node("block", <<Node("switch", <<Case(1, Case(2, Leaf("empty"))),
                                                      Leaf("break"),
                                                      Default(Leaf("empty"))>>)>>)
    /\ \E i \in 1..Len(Body(1)) :
        Body(1)[i].op = "OpSwitch" /\ Len(Body(1)[i].args) = 6

\* The first terminator of `body` behind instruction i, 0 when there is none
NextTerminator(body, i) ==
    LET later == {k \in (i + 1)..Len(body) : IsTerminator(body[k])}
    IN IF later = {} THEN 0 ELSE CHOOSE k \in later : \A j \in later : k <= j

\* l1 .. ln are labels of `body`, in this order
InOrder(body, labels) ==
    /\ \A i \in 1..Len(labels) : LabelIndex(body, labels[i]) > 0
    /\ \A i \in 1..(Len(labels) - 1) :
        LabelIndex(body, labels[i]) < LabelIndex(body, labels[i + 1])

\* Instruction k is in the block of `first`, which ends where `next` starts
Within(body, k, first, next) ==
    LabelIndex(body, first) < k /\ k < LabelIndex(body, next)

\* What is emitted for the loop `a` at pos
LoopEmitted(body, a, pos) ==
    LET merges == {i \in MergeIndex(body, pos) : body[i].op = "OpLoopMerge"}
    IN /\ Cardinality(merges) = 1
       /\ LET lm == CHOOSE i \in merges : TRUE
              header_label == body[lm - 1].result
              merge_label == body[lm].args[1]
              continue_label == body[lm].args[2]
              first == body[lm + 1].args[1]
              t == NextTerminator(body, lm + 1)
              loop_label == IF a.k = "do" THEN first
                            ELSE IF body[t].op = "OpBranchConditional" THEN body[t].args[2]
                            ELSE body[t].args[1]
              inner == ChildPos(a, pos, 1)
              back == {k \in lm..Len(body) : header_label \in Targets(body[k])}
          IN \* the header block: the label, the merge instruction, the branch
             /\ lm > 1 /\ lm < Len(body)
             /\ body[lm - 1].op = "OpLabel"
             /\ body[lm + 1].op = "OpBranch"
             /\ t > 0
             \* the order of the blocks
             /\ IF a.k = "do"
                THEN InOrder(body, <<header_label, loop_label, continue_label, merge_label>>)
                ELSE /\ InOrder(body, <<header_label, first, loop_label, continue_label,
                                        merge_label>>)
                     /\ body[t].op \in {"OpBranch", "OpBranchConditional"}
                     /\ LabelIndex(body, first) = lm + 2
             \* the statement of the loop is in the body, the continue expression
             \* in the continue block
             /\ \A k \in 1..Len(body) :
                    (\/ body[k].stmt \in inner..(inner + Len(Tokens(a.c[1])) - 1)
                     \/ body[k].loc \in inner..(inner + Len(Tokens(a.c[1])) - 1))
                        => Within(body, k, loop_label, continue_label)
             /\ a.k = "forx" =>
                    /\ \E k \in 1..Len(body) : body[k].loc \in (pos + 8)..(pos + 10)
                    /\ \A k \in 1..Len(body) :
                           body[k].loc \in (pos + 8)..(pos + 10)
                               => Within(body, k, continue_label, merge_label)
             \* only the continue block branches back to the header
             /\ back # {}
             /\ \A k \in back : body[BlockOf(body, k)].result = continue_label

\* C8: the labels of the blocks of a for and of a while loop are emitted in
\* the order header, condition, body, continue, merge, those of a do-while
\* loop in the order header, body, continue, merge; OpLoopMerge(merge,
\* continue) is in the header block, immediately before the branch of the
\* header, and only the continue block branches back to the header.
C8_LoopBlockOrder ==
    Compiled /\ result =>
        \A c \in Constructs(source.ast, BodyPos) :
            c.ast.k \in {"while", "do", "for", "forx"}
                => LoopEmitted(Body(1), c.ast, c.loc)

\* A for loop with a continue expression around another loop was compiled
C8_Witness ==
    /\ Compiled
    /\ result
    /\ \E c \in Constructs(source.ast, BodyPos) :
        /\ c.ast.k = "forx"
        /\ c.ast.c[1].k \in {"while", "do"}
        /\ Cardinality(MergeIndex(Body(1), c.loc)) = 1

\* The smallest multiple of s that is at least a
RoundUp(a, s) == CHOOSE m \in a..(a + s - 1) : m % s = 0

\* The size of a member of $Globals
MemberSize(type) ==
    4 * (IF type.rows = 3 THEN 4 ELSE type.rows) * type.cols
      * (IF type.array_length > 1 THEN type.array_length ELSE 1)

\* The size of a generated declaration
DeclaredSize(d) ==
    (CASE d.type \in {"float", "bool"} -> 4
       [] d.type = "float3" -> 16
       [] d.type = "float4x4" -> 64) * (IF d.array = 0 THEN 1 ELSE d.array)

\* The Offset decoration of member i of $Globals (counted from 1), -1 when it
\* has none or several
OffsetOf(i) ==
    LET ds == {k \in 1..Len(p._member_decorations) :
                  /\ p._member_decorations[k].id = p._global_ubo_type
                  /\ p._member_decorations[k].member = i - 1
                  /\ p._member_decorations[k].decoration = "Offset"}
    IN IF Cardinality(ds) = 1 THEN p._member_decorations[CHOOSE k \in ds : TRUE].value
       ELSE -1

EndOf(i) == IF i = 0 THEN 0 ELSE OffsetOf(i) + MemberSize(p._uniforms[i].type)

Stores ==
    {i \in UNION {{Body(f)[k] : k \in 1..Len(Body(f))} : f \in 1..Len(p._functions2)} :
        i.op = "OpStore"}

\* C11: no store is emitted to an expression that is const-qualified,
\* uniform-qualified or not an lvalue: `=`, a compound assignment, a prefix or
\* postfix `++`/`--` and the copy-out of an `out` argument after a call each
\* reject such a target with an error first.
C11_NoStoreToReadOnly ==
    pc = "done" /\ source.kind = "store" /\ source.ast.target # "x"
        => HasError(p) /\ Stores = {}

\* What is emitted for the one call of `body` to a function whose parameters
\* are qualified qs: the variable of parameter k is operand k of the call
CallEmitted(body, qs) ==
    LET calls == {i \in 1..Len(body) : body[i].op = "OpFunctionCall"}
    IN /\ Cardinality(calls) = 1
       /\ LET c == CHOOSE i \in calls : TRUE
              variable(k) == body[c].args[1 + k]
              copy_in(k) == {i \in 1..Len(body) :
                                body[i].op = "OpStore" /\ body[i].args[1] = variable(k)}
              loaded(k) == {i \in 1..Len(body) :
                               body[i].op = "OpLoad" /\ body[i].args[1] = variable(k)}
              copy_out(k) == {i \in 1..Len(body) :
                                 /\ body[i].op = "OpStore"
                                 /\ \E l \in loaded(k) : body[i].args[2] = body[l].result}
          IN /\ Len(body[c].args) = 1 + Len(qs)
             /\ \A k \in 1..Len(qs) :
                    /\ Cardinality(copy_in(k)) = (IF qs[k] = "out" THEN 0 ELSE 1)
                    /\ \A i \in copy_in(k) : i < c
                    /\ Cardinality(copy_out(k)) = (IF qs[k] \in {"out", "inout"} THEN 1 ELSE 0)
                    /\ Cardinality(loaded(k)) = Cardinality(copy_out(k))
                    /\ \A i \in copy_out(k) \cup loaded(k) : i > c
             /\ \A i \in 1..Len(body) :
                    body[i].op = "OpStore" =>
                        \E k \in 1..Len(qs) : i \in copy_in(k) \cup copy_out(k)

\* C12: for a call to a user function every copy-in store (one per pointer
\* parameter qualified `in`) precedes the OpFunctionCall and every copy-out
\* store (one per pointer parameter qualified `out`) follows it; a parameter
\* declared only `out` gets no copy-in and one without `out` no copy-out.
C12_CopyInOut ==
    pc = "done" /\ source.kind = "call" =>
        /\ result
        /\ Len(p._functions2) = 2
        /\ CallEmitted(Body(2), source.ast.qualifiers)

\* A call with an `out` and an `inout` parameter was compiled
C12_Witness ==
    /\ pc = "done"
    /\ result
    /\ source.kind = "call"
    /\ source.ast.qualifiers = <<"out", "inout">>
    /\ \E i \in 1..Len(Body(2)) : Body(2)[i].op = "OpFunctionCall"

\* The functions of the arena that were generated as entry points
Wrappers == (1..Len(p._functions2)) \ ParsedFunctions

\* The entry point functions that call the function defined as `definition`
WrappersOf(definition) ==
    {w \in Wrappers :
        \E k \in 1..Len(p._functions2[w].definition) :
            /\ p._functions2[w].definition[k].op = "OpFunctionCall"
            /\ p._functions2[w].definition[k].args[1] = definition}

\* The entries of the entry point table for the function named `name`
EntriesOf(name) == {k \in 1..Len(p._entry_points) : p._entry_points[k].name = name}

\* The tokens of the program that name `name` as the value of a state
References(name) ==
    {i \in 2..Len(source.tokens) :
        /\ source.tokens[i] = Ident(name)
        /\ source.tokens[i - 1].id = "="}

\* C13: each user function gets at most one synthesized entry point function
\* and at most one entry of the entry point table, created at the first
\* VertexShader or PixelShader state that names it; later references in the
\* same or in other passes reuse it and emit nothing.
C13_OneEntryPoint ==
    /\ \A f \in 1..Len(p._functions) :
        /\ Cardinality(WrappersOf(p._functions[f].definition)) <= 1
        /\ Cardinality(EntriesOf(p._functions[f].name)) <= 1
    /\ pc = "done" /\ source.kind = "technique" =>
        /\ result
        /\ \A f \in 1..Len(p._functions) :
            LET name == p._functions[f].name
                wrappers == WrappersOf(p._functions[f].definition)
            IN /\ Cardinality(wrappers) = (IF References(name) = {} THEN 0 ELSE 1)
               /\ Cardinality(EntriesOf(name)) = Cardinality(wrappers)
               /\ \A w \in wrappers :
                    /\ p._functions2[w].declaration[1].result = p._functions[f].entry_point
                    /\ p._functions2[w].declaration[1].loc \in References(name)
                    /\ \A i \in References(name) : p._functions2[w].declaration[1].loc <= i
                    /\ \A k \in EntriesOf(name) :
                           p._entry_points[k].id = p._functions[f].entry_point
                    /\ Len(Body(w)) = 3
        /\ Wrappers = UNION {WrappersOf(p._functions[f].definition) : f \in 1..Len(p._functions)}

\* A function was named by three states, in two passes or more
C13_Witness ==
    /\ pc = "done"
    /\ result
    /\ source.kind = "technique"
    /\ source.ast.each
    /\ Cardinality(References("f")) = 3
    /\ Cardinality(WrappersOf(p._functions[1].definition)) = 1

\* The number of interface variables of a parameter or return value
MemberCount(param) ==
    IF param.type = "S" THEN Len(StructMembers) ELSE IF param.type = "void" THEN 0 ELSE 1

\* The storage class of the interface variables of a parameter
StorageOf(param) == IF param.q \in {"out", "inout"} THEN "Output" ELSE "Input"

RECURSIVE ExpectedStorage(_, _)
\* The storage classes of the interface variables of the parameters from i on
ExpectedStorage(ps, i) ==
    IF i > Len(ps) THEN <<>>
    ELSE [m \in 1..MemberCount(ps[i]) |-> StorageOf(ps[i])] \o ExpectedStorage(ps, i + 1)

RECURSIVE InterfaceOffset(_, _)
\* The number of interface variables of the parameters before parameter k
InterfaceOffset(ps, k) ==
    IF k <= 1 THEN 0 ELSE InterfaceOffset(ps, k - 1) + MemberCount(ps[k - 1])

\* The global variables of the Input and Output storage classes
InterfaceVariables ==
    {i \in 1..Len(p._variables) : p._variables[i].storage \in {"Input", "Output"}}

StorageOfId(id) ==
    LET v == CHOOSE i \in InterfaceVariables : p._variables[i].result = id
    IN p._variables[v].storage

\* In the body behind the call at c, the variable of `out` parameter k is
\* loaded and the value, or each of its members, is stored to the output
\* variables of that parameter
CopiedOut(body, c, interface, ps, k) ==
    LET outputs == [m \in 1..MemberCount(ps[k]) |-> interface[InterfaceOffset(ps, k) + m]]
    IN /\ \A m \in 1..Len(outputs) :
            /\ outputs[m] > body[c].args[1 + k]
            /\ k < Len(ps) => outputs[m] < body[c].args[2 + k]
       /\ \E l \in (c + 1)..Len(body) :
            /\ body[l].op = "OpLoad"
            /\ body[l].args = <<body[c].args[1 + k]>>
            /\ IF ps[k].type = "S"
               THEN \A m \in 1..Len(outputs) :
                        \E x \in (l + 1)..Len(body) :
                            /\ body[x].op = "OpCompositeExtract"
                            /\ body[x].args = <<body[l].result, m - 1>>
                            /\ \E st \in (x + 1)..Len(body) :
                                /\ body[st].op = "OpStore"
                                /\ body[st].args = <<outputs[m], body[x].result>>
               ELSE \E st \in (l + 1)..Len(body) :
                        /\ body[st].op = "OpStore"
                        /\ body[st].args = <<outputs[1], body[l].result>>

\* C14: the interface of an entry point lists, once each and nothing else,
\* the Input and Output variables created for it: one for a parameter that is
\* no struct, one for each member of a struct parameter, and one or one for
\* each member for the return value; the value of an `out` parameter is stored
\* behind the call to the Output variable created for that parameter or member.
C14_Interface ==
    pc = "done" /\ source.kind = "shader" =>
        /\ result
        /\ Len(p._entry_points) = 1
        /\ Cardinality(Wrappers) = 1
        /\ LET interface == p._entry_points[1].interface
               ps == source.ast.parameters
               expected == ExpectedStorage(ps, 1)
                              \o [m \in 1..MemberCount(source.ast.return) |-> "Output"]
               body == Body(CHOOSE w \in Wrappers : TRUE)
               c == CHOOSE i \in 1..Len(body) : body[i].op = "OpFunctionCall"
           IN /\ Len(interface) = Len(expected)
              /\ \A i, j \in 1..Len(interface) : interface[i] = interface[j] => i = j
              /\ {interface[i] : i \in 1..Len(interface)}
                    = {p._variables[v].result : v \in InterfaceVariables}
              /\ \A i \in 1..Len(interface) : StorageOfId(interface[i]) = expected[i]
              /\ \A k \in 1..Len(ps) :
                    StorageOf(ps[k]) = "Output" => CopiedOut(body, c, interface, ps, k)
              /\ Cardinality({i \in (c + 1)..Len(body) : body[i].op = "OpStore"})
                    = Cardinality({i \in 1..Len(expected) : expected[i] = "Output"})
              /\ \A i \in (c + 1)..Len(body) :
                    body[i].op = "OpStore" =>
                        \E k \in 1..Len(interface) :
                            expected[k] = "Output" /\ body[i].args[1] = interface[k]

\* An entry point with a struct parameter before an `out` struct parameter and
\* a struct for its return value
C14_Witness ==
    /\ pc = "done"
    /\ result
    /\ source.kind = "shader"
    /\ source.ast.parameters
          = <<ShaderParameter("", "S", ""), ShaderParameter("out", "S", "")>>
    /\ source.ast.return.type = "S"
    /\ Len(p._entry_points) = 1
    /\ Len(p._entry_points[1].interface) = 6

\* What the semantics of the shader functions stand for
ExpectedBuiltin(semantic) == IF semantic = "SV_POSITION" THEN "Position" ELSE "Max"
ExpectedIndex(semantic) == IF semantic \in {"TEXCOORD1", "SV_TARGET1"} THEN 1 ELSE 0

\* The interface variables of a parameter or return value: storage class,
\* builtin and semantic index of each
InterfaceOf(param, storage) ==
    IF param.type = "S"
    THEN [m \in 1..Len(StructMembers) |->
            [storage |-> storage, builtin |-> StructMembers[m].builtin,
             semantic_index |-> StructMembers[m].semantic_index]]
    ELSE IF param.type = "void" THEN <<>>
    ELSE <<[storage |-> storage, builtin |-> ExpectedBuiltin(param.semantic),
            semantic_index |-> ExpectedIndex(param.semantic)]>>

RECURSIVE ExpectedInterface(_, _)
ExpectedInterface(ps, i) ==
    IF i > Len(ps) THEN <<>>
    ELSE InterfaceOf(ps[i], StorageOf(ps[i])) \o ExpectedInterface(ps, i + 1)

\* The BuiltIn and Location decorations of an id
SemanticDecorations(id) ==
    {d \in 1..Len(p._decorations) :
        /\ p._decorations[d].id = id
        /\ p._decorations[d].decoration \in {"BuiltIn", "Location"}}

\* C15: every Input and Output variable of an entry point carries exactly one
\* of a BuiltIn and a Location decoration: the builtin its semantic maps to,
\* otherwise Location = semantic_index; an input of the fragment stage whose
\* builtin is Position is decorated FragCoord, and no output and no input of
\* the vertex stage is rewritten.
C15_Decorations ==
    pc = "done" /\ source.kind = "shader" =>
        /\ Len(p._entry_points) = 1
        /\ LET interface == p._entry_points[1].interface
               is_ps == source.ast.state = "PixelShader"
               expected == ExpectedInterface(source.ast.parameters, 1)
                              \o InterfaceOf(source.ast.return, "Output")
           IN /\ Len(interface) = Len(expected)
              /\ p._entry_points[1].model = (IF is_ps THEN "Fragment" ELSE "Vertex")
              /\ \A i \in 1..Len(interface) :
                    /\ Cardinality(SemanticDecorations(interface[i])) = 1
                    /\ \A d \in SemanticDecorations(interface[i]) :
                        LET decoration == p._decorations[d]
                        IN IF is_ps /\ expected[i].storage = "Input"
                                    /\ expected[i].builtin = "Position"
                           THEN decoration.decoration = "BuiltIn"
                                    /\ decoration.value = "FragCoord"
                           ELSE IF expected[i].builtin # "Max"
                           THEN decoration.decoration = "BuiltIn"
                                    /\ decoration.value = expected[i].builtin
                           ELSE decoration.decoration = "Location"
                                    /\ decoration.value = expected[i].semantic_index

\* A pixel shader with an SV_POSITION input, rewritten, and an SV_POSITION
\* output, not rewritten
C15_Witness ==
    /\ pc = "done"
    /\ result
    /\ source.kind = "shader"
    /\ source.ast.state = "PixelShader"
    /\ source.ast.parameters = <<ShaderParameter("", "float4", "SV_POSITION"),
                                 ShaderParameter("out", "float4", "SV_POSITION")>>
    /\ \E d \in 1..Len(p._decorations) : p._decorations[d].value = "FragCoord"
    /\ \E d \in 1..Len(p._decorations) : p._decorations[d].value = "Position"

RECURSIVE TrailingDigits(_)
\* The digits a sequence of characters ends in
TrailingDigits(chars) ==
    IF chars = <<>> \/ ~IsIn(DigitChars, chars[Len(chars)]) THEN <<>>
    ELSE Append(TrailingDigits(SubSeq(chars, 1, Len(chars) - 1)), chars[Len(chars)])

\* A semantic that names a builtin, a render target or a texture coordinate
IsNamedSemantic(chars) ==
    LET upper == ToUpper(chars)
    IN \/ Spell(upper) \in {"SV_POSITION", "SV_POINTSIZE", "SV_DEPTH", "SV_VERTEXID",
                            "VERTEXID"}
       \/ Len(upper) > 9 /\ SubSeq(upper, 1, 9) = <<"S", "V", "_", "T", "A", "R", "G", "E", "T">>
       \/ Len(upper) > 8 /\ SubSeq(upper, 1, 8) = <<"T", "E", "X", "C", "O", "O", "R", "D">>

\* What was recorded for the semantic of the program
RecordedSemantic ==
    CASE source.ast.place = "parameter" ->
            [builtin |-> p._functions[1].parameter_list[1].builtin,
             semantic_index |-> p._functions[1].parameter_list[1].semantic_index]
      [] source.ast.place = "return" ->
            [builtin |-> p._functions[1].return_builtin,
             semantic_index |-> p._functions[1].return_semantic_index]
      [] source.ast.place = "member" ->
            [builtin |-> p._structs[1].member_list[1].builtin,
             semantic_index |-> p._structs[1].member_list[1].semantic_index]

\* C16: for a semantic that is none of SV_POSITION, SV_POINTSIZE, SV_DEPTH,
\* SV_VERTEXID, VERTEXID, SV_TARGET<n>, TEXCOORD<n> in any letter case and that
\* ends in decimal digits, no builtin is reported and semantic_index is the
\* number those digits form.
C16_TrailingDigits ==
    /\ pc = "done"
    /\ source.kind = "semantic"
    /\ source.ast.place # "variable"
    /\ ~IsNamedSemantic(source.ast.semantic)
    /\ TrailingDigits(source.ast.semantic) # <<>>
    => /\ result
       /\ RecordedSemantic.builtin = "Max"
       /\ RecordedSemantic.semantic_index = stol(TrailingDigits(source.ast.semantic))

\* The component sets of a vector swizzle
ComponentSets == {<<"x", "y", "z", "w">>, <<"r", "g", "b", "a">>, <<"s", "t", "p", "q">>}

\* The number of components of the vector types of the swizzle programs
RowsOf(type) == IF type = "float2" THEN 2 ELSE 4

\* A swizzle of at most four components of one set, each within the vector
ValidSwizzle(subscript, rows) ==
    /\ Len(subscript) <= 4
    /\ \E set \in ComponentSets :
        \A i \in 1..Len(subscript) : \E k \in 1..rows : set[k] = subscript[i]

\* Some component occurs more than once
Repeated(subscript) ==
    \E i, j \in 1..Len(subscript) : i # j /\ subscript[i] = subscript[j]

\* The offsets of the components of a valid swizzle
OffsetsOf(subscript) ==
    [i \in 1..Len(subscript) |->
        LET set == CHOOSE set \in ComponentSets : \E k \in 1..4 : set[k] = subscript[i]
        IN (CHOOSE k \in 1..4 : set[k] = subscript[i]) - 1]

\* The instructions of the functions of the module
Emitted == UNION {{Body(f)[k] : k \in 1..Len(Body(f))} : f \in 1..Len(p._functions2)}

\* C17: a vector swizzle that repeats a component is accepted as a read and
\* its result is const: an assignment, a compound assignment, an increment or
\* a decrement of it is rejected with error 3025 and no store is emitted; a
\* swizzle without a repeated component of a parameter that is neither const
\* nor uniform is assigned, incremented and decremented without an error.
C17_RepeatedSwizzle ==
    /\ pc = "done"
    /\ source.kind = "swizzle"
    /\ ValidSwizzle(source.ast.subscript, RowsOf(source.ast.type))
    => IF source.ast.operation = "read"
       THEN /\ result
            /\ ~HasError(p)
            /\ Stores = {}
            /\ \E i \in Emitted :
                /\ i.op = "OpVectorShuffle"
                /\ SubSeq(i.args, 3, Len(i.args)) = OffsetsOf(source.ast.subscript)
       ELSE IF Repeated(source.ast.subscript)
       THEN /\ ~result
            /\ HasCode(p, 3025)
            /\ Stores = {}
       ELSE /\ result
            /\ ~HasError(p)
            /\ Cardinality(Stores) = 1

\* A swizzle that repeats a component was read, and one was assigned to
C17_Witness ==
    /\ pc = "done"
    /\ source.kind = "swizzle"
    /\ source.ast.subscript = <<"x", "y", "x">>
    /\ source.ast.type = "float4"
    /\ source.ast.operation = "+="
    /\ HasCode(p, 3025)

\* The form of a matrix subscript: with an `m` before the digits, or without
IsMForm(subscript) == Len(subscript) >= 2 /\ subscript[2] = "m"

\* The number of characters of an element of the subscript
Stride(subscript) == IF IsMForm(subscript) THEN 4 ELSE 3

\* A sequence of elements, all of the form of the first
WellFormed(subscript) ==
    LET n == Stride(subscript)
    IN /\ Len(subscript) >= n
       /\ Len(subscript) % n = 0
       /\ \A e \in 0..(Len(subscript) \div n - 1) :
            /\ subscript[e * n + 1] = "_"
            /\ IsMForm(subscript) => subscript[e * n + 2] = "m"
            /\ IsIn(DigitChars, subscript[e * n + n - 1])
            /\ IsIn(DigitChars, subscript[e * n + n])

\* The two digits of the elements of a well formed subscript
DigitPairs(subscript) ==
    LET n == Stride(subscript)
    IN [e \in 1..(Len(subscript) \div n) |->
          [R |-> IndexIn(DigitChars, subscript[e * n - 1]) - 1,
           C |-> IndexIn(DigitChars, subscript[e * n]) - 1]]

\* The rows and columns of the matrix types of the swizzle programs
MatrixSize(type) == IF type = "float2x2" THEN 2 ELSE 4

\* The offsets of the one OpVectorShuffle of the module
ShuffledOffsets ==
    {SubSeq(i.args, 3, Len(i.args)) : i \in {i \in Emitted : i.op = "OpVectorShuffle"}}

\* A matrix swizzle whose digits start at m_base in the form with `m` and at
\* plain_base in the form without: accepted with the elements its digits select
\* when every digit is one of the four from the base on and the element is in
\* the matrix, rejected with 3018 otherwise and when the forms are mixed
MatrixSwizzleSelects(m_base, plain_base) ==
    LET subscript == source.ast.subscript
        base == IF IsMForm(subscript) THEN m_base ELSE plain_base
        size == MatrixSize(source.ast.type)
        pairs == DigitPairs(subscript)
    IN IF /\ WellFormed(subscript)
          /\ \A e \in 1..Len(pairs) :
                /\ pairs[e].R \in base..(base + 3) /\ pairs[e].R - base < size
                /\ pairs[e].C \in base..(base + 3) /\ pairs[e].C - base < size
       THEN /\ result
            /\ ~HasError(p)
            /\ ShuffledOffsets
                  = {[e \in 1..Len(pairs) |-> (pairs[e].R - base) * 4 + (pairs[e].C - base)]}
       ELSE /\ ~result
            /\ HasCode(p, 3018)
            /\ ShuffledOffsets = {}

\* C18 as stated: the form with `m` has 1-based digits and selects (R-1, C-1),
\* the form without has 0-based digits and selects (R, C); a digit outside the
\* range of the form and a mix of the forms are rejected with error 3018.
C18_AsStated ==
    pc = "done" /\ source.kind = "matrix" /\ source.ast.type = "float4x4"
        => MatrixSwizzleSelects(1, 0)

\* C18: the form with `m` (`_mRC`) has 0-based digits and selects (R, C), the
\* form without (`_RC`) has 1-based digits and selects (R-1, C-1); a digit
\* outside the range of the form (0..3, 1..4), an element outside the matrix
\* and a mix of the forms are rejected with error 3018.
C18_MatrixSwizzle ==
    pc = "done" /\ source.kind = "matrix" => MatrixSwizzleSelects(0, 1)

\* `_m03` was accepted for a float4x4 and selects row 0, column 3
C18_Witness ==
    /\ pc = "done"
    /\ result
    /\ source.kind = "matrix"
    /\ source.ast.type = "float4x4"
    /\ source.ast.subscript = <<"_", "m", "0", "3">>
    /\ ShuffledOffsets = {<<3>>}

\* C19: a variable declared as a scalar int with a scalar float constant for
\* its initializer (`int x = 1.5;`) is accepted and warning 3206 is emitted.
C19_TruncationWarning ==
    /\ pc = "done"
    /\ source.kind = "initializer"
    /\ source.ast.type = "int"
    /\ source.ast.initializer = "1.5"
    => /\ result
       /\ [sev |-> "warning", code |-> 3206] \in p._errors

RECURSIVE Delivered(_, _)
\* The tokens the next n calls of consume() deliver in _token
Delivered(q, n) ==
    IF n = 0 THEN <<>>
    ELSE LET c == consume(q) IN <<c._token>> \o Delivered(c, n - 1)

\* The tokens delivered from here on, up to the first end_of_file behind the
\* input
Upcoming(q) == Delivered(q, Len(q._lexer.input) - q._lexer.pos + 2)

\* The tokens to come when a call of the record returned
UpcomingAt(call) ==
    Upcoming([p EXCEPT !._token_next = call._token_next, !._lexer = call._lexer])

\* Number of tokens consumed between backup() and restore()
MaxConsumed == 3

RECURSIVE Consumed(_, _)
\* The parser after n calls of consume()
Consumed(q, n) == IF n = 0 THEN q ELSE Consumed(consume(q), n - 1)

\* C20: after backup(), any number of consume() or accept() calls and then
\* restore(), with no other backup() in between, the look-ahead token and the
\* tokens the later consume() calls deliver are what they would have been had
\* nothing been consumed since backup(); and every restore() of the parser is
\* reached with no other backup() since the backup() it belongs to.
C20_Rollback ==
    /\ \A n \in 0..MaxConsumed :
        LET q == restore(Consumed(backup(p), n))
        IN /\ q._token_next = p._token_next
           /\ Upcoming(q) = Upcoming(p)
    /\ \A k \in 1..Len(p._history) :
        p._history[k].event = "restore" =>
            /\ k > 1
            /\ p._history[k - 1].event = "backup"
            /\ p._history[k]._token_next = p._history[k - 1]._token_next
            /\ UpcomingAt(p._history[k]) = UpcomingAt(p._history[k - 1])

\* The parser has rolled back: a type in parentheses was a constructor call
\* and not a cast, with tokens left to consume behind it
C20_Witness ==
    /\ \E k \in 1..Len(p._history) :
        p._history[k].event = "restore" /\ Len(UpcomingAt(p._history[k])) > 3
    /\ \E i \in 1..(Len(source.tokens) - 2) :
        /\ source.tokens[i].id = "("
        /\ source.tokens[i + 1].id \in {"float", "int"}
        /\ source.tokens[i + 2].id = "("
    /\ pc = "done"
    /\ result

\* A statement that leaves the block it is in
IsJump(a) == a.k \in {"break", "continue", "return", "discard"}

\* The statement behind the labels of an item of a switch body
RECURSIVE Unlabelled(_)
Unlabelled(a) == IF a.k \in {"case", "default"} THEN Unlabelled(a.c[1]) ELSE a

RECURSIVE Dead(_, _)
\* The positions of the statements of a that are entered with no block open:
\* behind a jump in the same block, and in a switch body without a label in
\* front, at its start or behind a jump
Dead(a, pos) ==
    UNION {Dead(a.c[i], ChildPos(a, pos, i)) : i \in 1..Len(a.c)}
        \cup (IF a.k = "block"
              THEN {ChildPos(a, pos, i + 1) : i \in {i \in 1..(Len(a.c) - 1) : IsJump(a.c[i])}}
              ELSE IF a.k = "switch"
              THEN {ChildPos(a, pos, i) :
                      i \in {i \in 1..Len(a.c) :
                               /\ a.c[i].k \notin {"case", "default"}
                               /\ i = 1 \/ IsJump(Unlabelled(a.c[i - 1]))}}
              ELSE {})

RECURSIVE Misplaced(_, _, _, _)
\* The positions of the break statements outside of a loop or switch and of
\* the continue statements outside of a loop
Misplaced(a, pos, loop, switch) ==
    IF a.k = "break" THEN (IF loop \/ switch THEN {} ELSE {pos})
    ELSE IF a.k = "continue" THEN (IF loop THEN {} ELSE {pos})
    ELSE UNION {Misplaced(a.c[i], ChildPos(a, pos, i),
                          loop \/ a.k \in {"while", "do", "for", "forx"},
                          switch \/ a.k = "switch") : i \in 1..Len(a.c)}

Least(S) == CHOOSE n \in S : \A m \in S : n <= m

\* The calls of parse_statement() that found no block open
Refused == {k \in 1..Len(p._history) : p._history[k].event = "statement"}

\* C21: parse_statement entered with no block open reports error 3000 and
\* returns false, consumes no token and emits no instruction; this is what
\* happens to a statement behind break, continue, return or discard in the
\* same block and to a statement of a switch body in front of the first label.
C21_NoBlockOpen ==
    /\ \A scoped \in BOOLEAN, sec \in {<<>>, p._variables} :
        LET q == [p EXCEPT !._current_block = 0]
            r == parse_statement(q, sec, scoped)
        IN /\ ~r.ok
           /\ r.sec = sec
           /\ [r.p EXCEPT !._history = q._history] = error(q, 3000)
    /\ pc = "done" /\ source.kind = "function" =>
        LET dead == Dead(source.ast, BodyPos)
            misplaced == Misplaced(source.ast, BodyPos, FALSE, FALSE)
        IN /\ \A k \in Refused :
                /\ p._history[k]._token_next.loc \in dead
                /\ HasCode(p, 3000)
                /\ ~result
           /\ dead # {} /\ (\A m \in misplaced : Least(dead) < m) =>
                /\ ~result
                /\ HasCode(p, 3000)
                /\ Cardinality(Refused) = 1
                /\ \A k \in Refused : p._history[k]._token_next.loc = Least(dead)

\* A statement behind a jump in a loop was refused
C21_Witness ==
    /\ pc = "done"
    /\ source.kind = "function"
    /\ source.ast = Node("block", <<Node("while", <<Node("block", <<Leaf("continue"),
                                                                   Leaf("break")>>)>>)>>)
    /\ Refused # {}
    /\ HasCode(p, 3000)

\* The shapes of the type descriptor: a scalar, a vector and a matrix for the
\* numeric types, no rows and columns for the other types
Shaped(type) ==
    IF is_numeric(type)
    THEN \/ type.rows = 1 /\ type.cols = 1
         \/ type.rows \in 2..4 /\ type.cols = 1
         \/ type.rows \in 2..4 /\ type.cols \in 2..4
    ELSE type.rows = 0 /\ type.cols = 0

\* C22: every type for which accept_type_class returns true is a scalar with
\* rows = cols = 1, a vector with cols = 1 and rows in 2..4, a matrix with rows
\* and cols in 2..4, or a void, string, texture, sampler or struct with
\* rows = cols = 0, for the keywords and for `vector<T, N>` and
\* `matrix<T, R, C>`.
C22_Shapes ==
    pc = "parse" =>
        LET r == accept_type_class(p, NoType)
        IN r.ok => Shaped(r.type)

\* The binary operations computed, in the order of their computation
Operations == {k \in 1..Len(p._history) : p._history[k].event = "binary"}

Comparisons ==
    {"OpFOrdLessThan", "OpSLessThan", "OpULessThan",
     "OpFOrdGreaterThan", "OpSGreaterThan", "OpUGreaterThan",
     "OpFOrdLessThanEqual", "OpSLessThanEqual", "OpULessThanEqual",
     "OpFOrdGreaterThanEqual", "OpSGreaterThanEqual", "OpUGreaterThanEqual",
     "OpFOrdEqual", "OpIEqual", "OpLogicalEqual",
     "OpFOrdNotEqual", "OpINotEqual", "OpLogicalNotEqual"}

\* The result of the comparison is a bool of the dimensions of the merged type
IsBoolean(operation) ==
    /\ operation.type.base = "bool"
    /\ operation.type.rows = operation.merged.rows
    /\ operation.type.cols = operation.merged.cols

\* C23: the result of a comparison (<, >, <=, >=, ==, !=) has base type bool
\* with the dimensions of the merged operand type, both when the comparison of
\* constants is folded and when it is emitted as an instruction.
C23_BooleanComparison ==
    \A k \in Operations : p._history[k].op \in Comparisons => IsBoolean(p._history[k])

\* C27: constant folding of integer `/` and `%` never divides by zero: with a
\* lane of the right operand 0 the quotient or remainder of that lane is not
\* computed at compile time.
C27_NoDivisionByZero ==
    \A k \in Operations :
        LET operation == p._history[k]
        IN operation.folded /\ operation.op \in {"OpSDiv", "OpUDiv", "OpSRem", "OpUMod"} =>
                \A i \in 1..Len(operation.right) : operation.right[i] # 0

\* C24: a conditional expression with a vector for its condition and a value
\* of another number of rows is rejected with error 3020.
C24_ConditionalDimensions ==
    pc = "done" /\ source.kind = "conditional" =>
        LET condition == KeywordType(NoType, source.ast.condition)
            value == KeywordType(NoType, source.ast.value)
        IN is_vector(condition) /\ value.rows # condition.rows =>
                ~result /\ HasCode(p, 3020)

\* The returns of parse_statement, parse_statement_block and parse_function
Returns == {k \in 1..Len(p._history) : p._history[k].event = "return"}

\* C25: when parse_statement, parse_statement_block or parse_function
\* returns, with true or with false, the depths of the scopes, of the break
\* targets and of the continue targets are those at entry; at the start of
\* every top-level declaration both target stacks are empty, no block is open
\* and the current scope is the scope of the enclosing namespace.
C25_DepthsRestored ==
    /\ \A k \in Returns : p._history[k].exit = p._history[k].entry
    /\ pc = "parse" =>
        /\ p._loop_break_target_stack = <<>>
        /\ p._loop_continue_target_stack = <<>>
        /\ p._current_block = 0
        /\ p._current_scope.level = Len(frames)
        /\ p._current_scope.namespace_level = Len(frames)

\* A statement of a loop has failed with both target stacks filled, the block
\* it is in has failed, and the function has returned false
C25_Witness ==
    \E i, j, k \in Returns :
        /\ i < j /\ j < k
        /\ p._history[i].function = "parse_statement"
        /\ ~p._history[i].ok
        /\ p._history[i].entry.break >= 1
        /\ p._history[i].entry.continue >= 1
        /\ p._history[i].entry.scope >= 2
        /\ p._history[j].function = "parse_statement_block"
        /\ ~p._history[j].ok
        /\ p._history[j].entry.break >= 1
        /\ p._history[k].function = "parse_function"
        /\ ~p._history[k].ok

\* C26: every call of align made while $Globals is laid out has an alignment
\* above 0: every global declaration that reaches the uniform branch of
\* parse_variable, those of a struct type and of the type string included,
\* has a computed size of at least 4.
C26_PositiveAlignment ==
    \A i \in 1..Len(p._uniforms) : UniformSize(p._uniforms[i].type) >= 4

\* The value parameter k of a function is called with
Argument(k) == 10 * k

\* The values of the ids before the body of function f runs: the constants
\* and the parameters
Entered(f) ==
    [id \in 1..p._next_id |->
        LET cs == {k \in 1..Len(p._constant_lookup) : p._constant_lookup[k].id = id}
            ps == {k \in 1..Len(p._functions2[f].declaration) :
                      /\ p._functions2[f].declaration[k].op = "OpFunctionParameter"
                      /\ p._functions2[f].declaration[k].result = id}
        IN IF cs # {} THEN p._constant_lookup[CHOOSE k \in cs : TRUE].key.constant[1]
           ELSE IF ps # {} THEN Argument((CHOOSE k \in ps : TRUE) - 1)
           ELSE 0]

RECURSIVE Executed(_, _, _)
\* The values of the ids behind the loads, stores, additions and subtractions
\* of a body without branches, from instruction k on
Executed(body, k, values) ==
    IF k > Len(body) THEN values
    ELSE LET i == body[k]
         IN Executed(body, k + 1,
               CASE i.op = "OpLoad" -> [values EXCEPT ![i.result] = values[i.args[1]]]
                 [] i.op = "OpStore" -> [values EXCEPT ![i.args[1]] = values[i.args[2]]]
                 [] i.op \in {"OpIAdd", "OpFAdd"} ->
                        [values EXCEPT ![i.result] = values[i.args[1]] + values[i.args[2]]]
                 [] i.op \in {"OpISub", "OpFSub"} ->
                        [values EXCEPT ![i.result] = values[i.args[1]] - values[i.args[2]]]
                 [] OTHER -> values)

\* The value parameter `name` of function f holds when the body has run
Left(f, name) ==
    LET k == CHOOSE j \in 1..Len(p._functions[f].parameter_list) :
                 p._functions[f].parameter_list[j].name = name
    IN Executed(Body(f), 1, Entered(f))[p._functions2[f].declaration[k + 1].result]

\* The value of the operand of a generated `target = operand++` before the
\* update and after it
Before(a) == Argument(IF a.operand = "i" THEN 1 ELSE 3)
Updated(a) ==
    LET one == IF a.operand = "x" THEN FloatOne ELSE 1
    IN IF a.op = "++" THEN Before(a) + one ELSE Before(a) - one

\* C28: a postfix `x++` or `x--` evaluates to the value x held before the
\* update, and the value stored back into x is that value plus or minus one; a
\* prefix `++x` or `--x` evaluates to the updated value.
C28_IncrementValue ==
    pc = "done" /\ source.kind = "increment" =>
        /\ result
        /\ Left(1, source.ast.operand) = Updated(source.ast)
        /\ Left(1, source.ast.target) =
              IF source.ast.prefix THEN Updated(source.ast) ELSE Before(source.ast)

\* The shaders the passes have recorded when they are left: of each pass, the
\* last function assigned to each of its two shader states
Shaders ==
    {k \in 1..Len(p._history) :
        /\ p._history[k].event = "shader"
        /\ \A j \in (k + 1)..Len(p._history) :
              /\ p._history[j].event = "shader"
              /\ p._history[j].state = p._history[k].state
              => \E i \in (k + 1)..j : p._history[i].event = "pass"}

\* The execution model of the entry points of a shader state
ModelOf(state) == IF state = "VertexShader" THEN "Vertex" ELSE "Fragment"

\* C29: for every pass, the function recorded as its vertex shader has an
\* entry point registered with the execution model Vertex and the function
\* recorded as its pixel shader one with the execution model Fragment, also
\* when one function is the vertex shader of one pass state and the pixel
\* shader of another.
C29_ShaderModels ==
    \A k \in Shaders :
        \E e \in 1..Len(p._entry_points) :
            /\ p._entry_points[e].name = p._history[k].function
            /\ p._entry_points[e].model = ModelOf(p._history[k].state)

\* The return terminators of the function defined as `definition`
ReturnsOf(definition) ==
    UNION {{Body(w)[k] : k \in {j \in 1..Len(Body(w)) :
                                   Body(w)[j].op \in {"OpReturn", "OpReturnValue"}}} :
           w \in {v \in 1..Len(p._functions2) :
                     p._functions2[v].declaration[1].result = definition}}

\* C30: in a function of a return type other than void whose parse succeeds,
\* every return terminator of the body is an OpReturnValue: a body whose last
\* block is open at the closing brace is rejected with an error and is not
\* closed with an OpReturn without a value.
C30_ReturnsValue ==
    pc = "done" /\ result =>
        \A f \in 1..Len(p._functions) :
            ~is_void(p._functions[f].return_type) =>
                \A i \in ReturnsOf(p._functions[f].definition) : i.op = "OpReturnValue"

====
